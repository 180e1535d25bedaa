----------------------------- MODULE RateLimiter -----------------------------
(***************************************************************************)
(* delivery/http/middleware/rate_limiter.go for one address: the requests  *)
(* it sends, its entry in the sync.Map, and the goroutine that reaps       *)
(* entries.  Addresses share nothing, so one stands for all.  Time goes in *)
(* ticks; what a request or the reaper does between two of its steps takes *)
(* no time, but anything may come in between.  An ideal bucket that is     *)
(* never reaped runs along: it says how much may be admitted.              *)
(***************************************************************************)
EXTENDS Integers, FiniteSets

CONSTANTS
  Requests,   \* goroutines of requests, each serving one after the other
  Rate,       \* tokens a tick brings (RPS)
  Burst,      \* size of the bucket
  Stale       \* staleThreshold in ticks

ASSUME LimiterAssumption ==
  /\ IsFiniteSet(Requests)
  /\ Rate \in Nat \ {0} /\ Burst \in Nat \ {0} /\ Stale \in Nat \ {0}
  /\ 2 * Burst <= Rate * Stale     \* 2 * 20 <= 10 a second for 3 minutes

\* Identities of *ipLimiter values: one in the map, one held by each request.
Bucket == 1 .. Cardinality(Requests) + 1

VARIABLES
  entry,     \* the bucket the map holds for the address, 0 for none
  tokens,    \* what is left in each bucket
  age,       \* ticks since lastSeen of each bucket, at most Stale + 1
  pc,        \* where each request is
  mine,      \* the bucket it got from LoadOrStore, 0 for none
  reaping,   \* the reaper has found the entry stale and is about to delete it
  ideal,     \* history: the ideal bucket; negative if too much was admitted
  hit        \* history: an entry was deleted that a request had got hold of
             \* since the reaper looked at it

vars == <<entry, tokens, age, pc, mine, reaping, ideal, hit>>

TypeOK ==
  /\ entry \in Bucket \cup {0}
  /\ tokens \in [Bucket -> 0 .. Burst]
  /\ age \in [Bucket -> 0 .. Stale + 1]
  /\ pc \in [Requests -> {"idle", "seen", "allow"}]
  /\ mine \in [Requests -> Bucket \cup {0}]
  /\ reaping \in BOOLEAN /\ hit \in BOOLEAN
  /\ ideal \in Int

Init ==
  /\ entry = 0
  /\ tokens = [b \in Bucket |-> Burst]
  /\ age = [b \in Bucket |-> 0]
  /\ pc = [r \in Requests |-> "idle"]
  /\ mine = [r \in Requests |-> 0]
  /\ reaping = FALSE /\ hit = FALSE
  /\ ideal = Burst

Unused == {b \in Bucket : b # entry /\ \A r \in Requests : mine[r] # b}

\* One of them; which one makes no difference.
New == CHOOSE b \in Unused : TRUE

\* LoadOrStore: the entry of the address, or a new one with a full bucket.
LoadOrStore(r) ==
  /\ pc[r] = "idle"
  /\ \/ /\ entry # 0
        /\ mine' = [mine EXCEPT ![r] = entry] /\ pc' = [pc EXCEPT ![r] = "seen"]
        /\ UNCHANGED <<entry, tokens, age>>
     \/ /\ entry = 0
        /\ LET b == New IN
             /\ entry' = b /\ mine' = [mine EXCEPT ![r] = b]
             /\ tokens' = [tokens EXCEPT ![b] = Burst]
             /\ age' = [age EXCEPT ![b] = 0]
        /\ pc' = [pc EXCEPT ![r] = "allow"]
  /\ UNCHANGED <<reaping, ideal, hit>>

\* lastSeen is written without a lock; the reaper reads the old or the new time.
Seen(r) ==
  /\ pc[r] = "seen" /\ pc' = [pc EXCEPT ![r] = "allow"]
  /\ age' = [age EXCEPT ![mine[r]] = 0]
  /\ UNCHANGED <<entry, tokens, mine, reaping, ideal, hit>>

\* Mutation: the request is let through before the bucket is asked.
Bug_Allowed(r) == TRUE

Allowed(r) == tokens[mine[r]] > 0

\* limiter.Allow: the request is served, or answered 429.
Allow(r) ==
  /\ pc[r] = "allow" /\ pc' = [pc EXCEPT ![r] = "idle"]
  /\ \/ /\ Allowed(r)
        /\ tokens' = [tokens EXCEPT ![mine[r]] = IF @ > 0 THEN @ - 1 ELSE 0]
        /\ ideal' = ideal - 1
     \/ ~Allowed(r) /\ UNCHANGED <<tokens, ideal>>
  /\ mine' = [mine EXCEPT ![r] = 0]
  /\ UNCHANGED <<entry, age, reaping, hit>>

\* Mutation: an entry is stale after one tick.
Bug_IsStale == age[entry] > 0

IsStale == age[entry] > Stale

\* visitors.Range: the entry is looked at ...
Examine ==
  /\ entry # 0 /\ ~reaping /\ IsStale
  /\ reaping' = TRUE
  /\ UNCHANGED <<entry, tokens, age, pc, mine, ideal, hit>>

\* Mutation: the reaper forgets to delete.
Bug_Deleted == entry

Deleted == 0

\* ... and deleted, whatever has happened to it meanwhile.
Delete ==
  /\ reaping /\ reaping' = FALSE
  /\ entry' = Deleted
  /\ hit' = (hit \/ age[entry] = 0 \/ \E r \in Requests : mine[r] = entry)
  /\ UNCHANGED <<tokens, age, pc, mine, ideal>>

AtMost(n, m) == IF n < m THEN n ELSE m

Refilled(n) == AtMost(n + Rate, Burst)

Tick ==
  /\ \A r \in Requests : pc[r] = "idle"
  /\ ~reaping
  /\ tokens' = [b \in Bucket |-> Refilled(tokens[b])]
  /\ ideal' = AtMost(ideal + Rate, Burst)
  /\ age' = [b \in Bucket |-> AtMost(age[b] + 1, Stale + 1)]
  /\ UNCHANGED <<entry, pc, mine, reaping, hit>>

Request(r) == LoadOrStore(r) \/ Seen(r) \/ Allow(r)
Next == (\E r \in Requests : Request(r)) \/ Examine \/ Delete \/ Tick

Spec == Init /\ [][Next]_vars

-----------------------------------------------------------------------------
(* Properties.                                                              *)

\* Reaping goes unnoticed as long as it does not hit an entry in use: a bucket
\* idle for three minutes is full, so a new one is as good.
ReapingIsInvisible ==
  ~hit => ideal = (IF entry = 0 THEN Burst ELSE tokens[entry])

\* "Each unique client IP gets its own token bucket" (line 31): it may be given a
\* second one if reaping does hit, but never more than one burst on top of its due.
AtMostTwice == ideal >= -Burst

Quiet == \A r \in Requests : pc[r] = "idle"

\* The entry of an address that stays away is removed, "preventing unbounded
\* memory growth" (line 37).
EntriesGo == <>[]Quiet => <>[](entry = 0)
=============================================================================
