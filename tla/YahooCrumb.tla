----------------------------- MODULE YahooCrumb -----------------------------
(***************************************************************************)
(* FetchProfile and ensureCrumb of pkg/yfinance/fetcher.go.  Handlers call *)
(* FetchProfile concurrently on one Fetcher; the crumb is cached under a   *)
(* mutex that ensureCrumb holds during its two HTTP requests.  Yahoo       *)
(* accepts the crumbs of one version and moves on to the next now and      *)
(* then; a crumb is its version, 0 the empty string.                       *)
(***************************************************************************)
EXTENDS Integers

CONSTANTS
  Callers,      \* goroutines that call FetchProfile again and again
  None,         \* nobody holds the mutex
  MaxVersion    \* bound on the versions Yahoo goes through

ASSUME CrumbAssumption == None \notin Callers /\ MaxVersion \in Nat \ {0}

VARIABLES
  good,      \* the version Yahoo accepts
  crumb,     \* f.crumb
  stale,     \* f.crumbTime is more than 30 minutes ago
  mutex,     \* holder of f.crumbMu
  pc,        \* where each caller is
  used,      \* the crumb of its request
  retried,   \* it has been answered 401 once
  at401,     \* history: the version Yahoo accepted when it answered that 401
  result     \* how the call ended

vars == <<good, crumb, stale, mutex, pc, used, retried, at401, result>>

TypeOK ==
  /\ good \in 1 .. MaxVersion /\ crumb \in 0 .. MaxVersion
  /\ stale \in BOOLEAN
  /\ mutex \in Callers \cup {None}
  /\ pc \in [Callers -> {"idle", "lock", "fetch", "request", "clear", "done"}]
  /\ \A c \in Callers : mutex = c <=> pc[c] = "fetch"
  /\ used \in [Callers -> 0 .. MaxVersion]
  /\ retried \in [Callers -> BOOLEAN]
  /\ at401 \in [Callers -> 0 .. MaxVersion]
  /\ result \in [Callers -> {"none", "profile", "unauthorized", "error"}]

Init ==
  /\ good = 1 /\ crumb = 0 /\ stale = TRUE /\ mutex = None
  /\ pc = [c \in Callers |-> "idle"]
  /\ used = [c \in Callers |-> 0]
  /\ retried = [c \in Callers |-> FALSE]
  /\ at401 = [c \in Callers |-> 0]
  /\ result = [c \in Callers |-> "none"]

Move(c, k, l)   == pc[c] = k /\ pc' = [pc EXCEPT ![c] = l]
Return(c, k, r) == Move(c, k, "done") /\ result' = [result EXCEPT ![c] = r]
Use(c, v)       == used' = [used EXCEPT ![c] = v]

Call(c) ==
  /\ Move(c, "idle", "lock")
  /\ UNCHANGED <<good, crumb, stale, mutex, used, retried, at401, result>>

-----------------------------------------------------------------------------
(* ensureCrumb.                                                             *)

Fresh == crumb # 0 /\ ~stale

\* Lock; a fresh crumb is returned, and the mutex released, at once.
Lock(c) ==
  /\ mutex = None
  /\ \/ Fresh /\ Move(c, "lock", "request") /\ Use(c, crumb) /\ UNCHANGED mutex
     \/ ~Fresh /\ Move(c, "lock", "fetch") /\ mutex' = c /\ UNCHANGED used
  /\ UNCHANGED <<good, crumb, stale, retried, at401, result>>

UnlockFailed == mutex' = None

\* The consent page and the crumb: an error, the current crumb, an empty body.
Fetch(c) ==
  /\ mutex = c
  /\ \/ /\ Return(c, "fetch", "error") /\ UnlockFailed
        /\ UNCHANGED <<crumb, stale, used>>
     \/ /\ Move(c, "fetch", "request") /\ mutex' = None
        /\ \E v \in {good, 0} : crumb' = v /\ Use(c, v)
        /\ stale' = FALSE /\ UNCHANGED result
  /\ UNCHANGED <<good, retried, at401>>

-----------------------------------------------------------------------------
(* FetchProfile.                                                            *)

\* Mutation: every 401 is followed by another attempt.
Bug_MayRetry(c) == TRUE

MayRetry(c) == ~retried[c]

\* A 200 may still carry an error, no result or no JSON at all.
Decoded == {"profile", "error"}

\* The request for the profile; a transport error or a status that is neither
\* 200 nor 401 ends the call.
Request(c) ==
  /\ \/ /\ used[c] = good /\ \E r \in Decoded : Return(c, "request", r)
        /\ UNCHANGED <<retried, at401>>
     \/ Return(c, "request", "error") /\ UNCHANGED <<retried, at401>>
     \/ /\ used[c] # good /\ MayRetry(c)
        /\ Move(c, "request", "clear")
        /\ retried' = [retried EXCEPT ![c] = TRUE]
        /\ at401' = [at401 EXCEPT ![c] = good]
        /\ UNCHANGED result
     \/ /\ used[c] # good /\ ~MayRetry(c)
        /\ Return(c, "request", "unauthorized") /\ UNCHANGED <<retried, at401>>
  /\ UNCHANGED <<good, crumb, stale, mutex, used>>

\* Mutation: the crumb is left in the cache.
Bug_Invalidate == UNCHANGED <<crumb, stale>>

Invalidate == crumb' = 0 /\ stale' = TRUE

\* After a 401 the cache is cleared, whatever is in it by now.
Clear(c) ==
  /\ mutex = None /\ Move(c, "clear", "lock") /\ Invalidate
  /\ UNCHANGED <<good, mutex, used, retried, at401, result>>

Done(c) ==
  /\ Move(c, "done", "idle")
  /\ Use(c, 0)
  /\ retried' = [retried EXCEPT ![c] = FALSE]
  /\ at401' = [at401 EXCEPT ![c] = 0]
  /\ result' = [result EXCEPT ![c] = "none"]
  /\ UNCHANGED <<good, crumb, stale, mutex>>

\* Yahoo stops accepting the crumbs it has given out.
Rotate == /\ good < MaxVersion /\ good' = good + 1
          /\ UNCHANGED <<crumb, stale, mutex, pc, used, retried, at401, result>>

\* Half an hour goes by.
Expire == /\ ~stale /\ stale' = TRUE
          /\ UNCHANGED <<good, crumb, mutex, pc, used, retried, at401, result>>

Step(c) == Lock(c) \/ Fetch(c) \/ Request(c) \/ Clear(c) \/ Done(c)
Next    == Rotate \/ Expire \/ \E c \in Callers : Call(c) \/ Step(c)

Spec == Init /\ [][Next]_vars

-----------------------------------------------------------------------------
(* Properties.                                                              *)

\* The crumb of the second attempt was fetched after the first was refused, by
\* whichever caller: only another change at Yahoo, or an empty crumb, makes it
\* fail with 401 as well (lines 275-302).
SecondCrumbIsNewer ==
  \A c \in Callers : retried[c] /\ pc[c] \in {"request", "done"} /\ result[c] # "error" =>
    used[c] = 0 \/ used[c] >= at401[c]

\* Every call of FetchProfile returns; no failure leaves the mutex locked.
CallsReturn == \A c \in Callers : pc[c] = "lock" ~> pc[c] = "done"
=============================================================================
