---------------------------- MODULE ResponseCache ----------------------------
(***************************************************************************)
(* A GET request on its way through the middlewares of router.go: the rate *)
(* limiter first, which answers 429 itself, then CacheWithConfig of        *)
(* delivery/http/middleware/cache.go around the handler.  All requests are *)
(* for one cache key (path and query; keys share nothing) and come from    *)
(* one address.  Once a handler has answered, a goroutine of its own       *)
(* writes the answer to Valkey, for which it has two seconds.  An answer   *)
(* is the version of the tables it was read from.                          *)
(***************************************************************************)
EXTENDS RateLimiter

CONSTANTS
  None,           \* no answer: Valkey has no such key
  Failure,        \* an answer whose status is not 2xx
  TTL,            \* cfg.TTL in ticks (30 s in router.go)
  HandlerLimit,   \* bound on the time from a handler's query to its answer
  SetLimit,       \* the two seconds of setInCache
  MaxVersion      \* bound on the changes to the tables

ASSUME CacheAssumption ==
  /\ TTL \in Nat \ {0} /\ HandlerLimit \in Nat /\ SetLimit \in Nat /\ MaxVersion \in Nat
  /\ {None, Failure} \cap Nat = {} /\ None # Failure

Version == 0 .. MaxVersion
Oldest  == HandlerLimit + SetLimit + TTL

VARIABLES
  version,   \* what the tables hold
  since,     \* ticks since each version was replaced, at most Oldest
  cached,    \* the value of the key
  left,      \* ticks until it expires
  stage,     \* where each admitted request, or the goroutine it left, is
  answer,    \* what its handler read
  took       \* ticks it has been in this stage

cacheVars == <<version, since, cached, left, stage, answer, took>>
webVars   == <<vars, cacheVars>>

WebTypeOK ==
  /\ version \in Version /\ since \in [Version -> 0 .. Oldest]
  /\ cached \in Version \cup {None} /\ left \in 0 .. TTL
  /\ stage \in [Requests -> {"out", "lookup", "handler", "set"}]
  /\ answer \in [Requests -> Version \cup {None, Failure}]
  /\ took \in [Requests -> Nat]

WebInit ==
  /\ Init
  /\ version = 0 /\ since = [v \in Version |-> 0]
  /\ cached = None /\ left = 0
  /\ stage = [r \in Requests |-> "out"]
  /\ answer = [r \in Requests |-> None]
  /\ took = [r \in Requests |-> 0]

Enter(r, k, l) ==
  /\ stage[r] = k /\ stage' = [stage EXCEPT ![r] = l]
  /\ took' = [took EXCEPT ![r] = 0]

Holds(r, a) == answer' = [answer EXCEPT ![r] = a]

\* RateLimiterMiddleware calls next for those it admits.
Limited(r) ==
  /\ stage[r] = "out"
  /\ \/ (LoadOrStore(r) \/ Seen(r)) /\ UNCHANGED <<stage, took>>
     \/ Allow(r) /\ Allowed(r) /\ Enter(r, "out", "lookup")
     \/ Allow(r) /\ ~Allowed(r) /\ UNCHANGED <<stage, took>>
  /\ UNCHANGED <<version, since, cached, left, answer>>

\* getFromCache: a hit; or a miss, an error or 100 ms gone, and the handler
\* queries the tables, which may fail.
Lookup(r) ==
  /\ \/ cached # None /\ Enter(r, "lookup", "out") /\ UNCHANGED answer
     \/ /\ Enter(r, "lookup", "handler")
        /\ \E a \in {version, Failure} : Holds(r, a)
  /\ UNCHANGED <<vars, version, since, cached, left>>

Successful(r) == answer[r] # Failure

\* The handler answers; the goroutine starts.
Answered(r) ==
  /\ \/ Successful(r) /\ Enter(r, "handler", "set") /\ UNCHANGED answer
     \/ ~Successful(r) /\ Enter(r, "handler", "out") /\ Holds(r, None)
  /\ UNCHANGED <<vars, version, since, cached, left>>

\* setInCache, or its failure.
SetInCache(r) ==
  /\ Enter(r, "set", "out") /\ Holds(r, None)
  /\ \/ cached' = answer[r] /\ left' = TTL
     \/ UNCHANGED <<cached, left>>
  /\ UNCHANGED <<vars, version, since>>

\* A statement of another handler, the ingest or a cron job changes the tables.
Write ==
  /\ version < MaxVersion /\ version' = version + 1
  /\ UNCHANGED <<vars, since, cached, left, stage, answer, took>>

Pause == \A r \in Requests : pc[r] = "idle" /\ stage[r] # "lookup"

\* Mutation: the goroutine takes the time it needs.
Bug_Deadline(r) == stage[r] = "handler" => took[r] < HandlerLimit

Deadline(r) == /\ stage[r] = "handler" => took[r] < HandlerLimit
               /\ stage[r] = "set" => took[r] < SetLimit

\* Mutation: the key is set without Ex.
Bug_Ages == UNCHANGED <<cached, left>>

Ages == /\ left' = IF left = 0 THEN 0 ELSE left - 1
        /\ cached' = IF left <= 1 THEN None ELSE cached

\* Time goes by; the limiter and looking up the cache take none.
WebTick ==
  /\ Pause /\ \A r \in Requests : Deadline(r)
  /\ Tick
  /\ since' = [v \in Version |-> IF v < version THEN AtMost(since[v] + 1, Oldest) ELSE 0]
  /\ took' = [r \in Requests |-> IF stage[r] \in {"handler", "set"} THEN AtMost(took[r] + 1, Oldest) ELSE 0]
  /\ Ages
  /\ UNCHANGED <<version, stage, answer>>

Reap == (Examine \/ Delete) /\ UNCHANGED cacheVars

Serve(r) == Lookup(r) \/ Answered(r) \/ SetInCache(r)

WebNext == \/ \E r \in Requests : Limited(r) \/ Serve(r)
           \/ Reap \/ Write \/ WebTick

WebSpec == WebInit /\ [][WebNext]_webVars

\* Time does not stop for requests that are in no hurry; handlers answer.
FairWebSpec ==
  /\ WebSpec /\ SF_webVars(WebTick) /\ WF_webVars(Reap)
  /\ \A r \in Requests : WF_webVars(Serve(r))

-----------------------------------------------------------------------------
(* Properties.                                                              *)

\* A hit is never an error, and never older than the handler, the goroutine that
\* stored it and the TTL account for, whichever of several goroutines writes last
\* (cache.go 70-77): what it shows was replaced less than Oldest ticks ago.
HitsAreRecent ==
  cached # None => cached \in Version /\ (cached # version => since[cached] < Oldest)

\* Once the tables no longer change, stale answers die out, however many requests
\* keep reading the cache and writing to it; requests that never leave a moment
\* between them would leave time no room in this model.
StaleDiesOut == []<>Pause => <>[](cached \in {None, version})
=============================================================================
