----------------------------- MODULE HttpClient -----------------------------
(***************************************************************************)
(* Client.Get of pkg/httpclient/client.go: every feed and every article    *)
(* page is fetched with it.  A call asks again after a transport error, a  *)
(* 5xx or a 429, waiting longer each time, and watches its context while   *)
(* it waits for the backoff and for the rate limiter that the callers      *)
(* share; when the limiter grants is left open.  Time is in quarters of    *)
(* baseBackoff.                                                            *)
(***************************************************************************)
EXTENDS Integers

CONSTANTS
  Callers,      \* goroutines that call Get
  MaxRetries,   \* c.maxRetries
  Base,         \* baseBackoff
  MaxBackoff,   \* maxBackoff
  MaxDuration   \* the largest time.Duration

\* Base * 2^(n - 1)
Exponential[n \in 1 .. MaxRetries] == IF n = 1 THEN Base ELSE 2 * Exponential[n - 1]

\* calculateBackoff converts to time.Duration before it caps, and rand.Int64N
\* panics unless half the backoff is positive: both need Base * 2^(MaxRetries - 1)
\* to fit, which the default of three retries is far from.
ASSUME HttpAssumption ==
  /\ MaxRetries \in Nat \ {0}
  /\ Base \in Nat /\ Base >= 2 /\ MaxBackoff \in Nat /\ MaxBackoff >= 2
  /\ MaxDuration \in Nat
  /\ \A n \in 1 .. MaxRetries : Exponential[n] \in Base .. MaxDuration

VARIABLES
  at,          \* where each call of Get is
  attempt,     \* the loop variable
  asked,       \* history: requests it has sent
  waited,      \* history: time it has spent in backoffs
  outcome,     \* what it returned
  cancelled    \* its context is done

httpVars == <<at, attempt, asked, waited, outcome, cancelled>>

HttpTypeOK ==
  /\ at \in [Callers -> {"idle", "backoff", "limiter", "send", "done"}]
  /\ attempt \in [Callers -> 0 .. MaxRetries]
  /\ asked \in [Callers -> 0 .. MaxRetries + 1]
  /\ waited \in [Callers -> Nat]
  /\ outcome \in [Callers -> {"none", "body", "refused", "exceeded", "cancelled"}]
  /\ cancelled \in [Callers -> BOOLEAN]

HttpInit ==
  /\ at = [c \in Callers |-> "idle"]
  /\ attempt = [c \in Callers |-> 0]
  /\ asked = [c \in Callers |-> 0]
  /\ waited = [c \in Callers |-> 0]
  /\ outcome = [c \in Callers |-> "none"]
  /\ cancelled = [c \in Callers |-> FALSE]

GoTo(c, k, l)    == at[c] = k /\ at' = [at EXCEPT ![c] = l]
ReturnAs(c, k, o) == GoTo(c, k, "done") /\ outcome' = [outcome EXCEPT ![c] = o]

Get(c) ==
  /\ GoTo(c, "idle", "limiter")
  /\ UNCHANGED <<attempt, asked, waited, outcome, cancelled>>

Backoff(n) == IF Exponential[n] > MaxBackoff THEN MaxBackoff ELSE Exponential[n]
Half(n)    == Backoff(n) \div 2

\* backoff/2 + rand.Int64N(backoff/2), for the n-th retry.
Waits(n) == Half(n) .. 2 * Half(n) - 1

\* time.After(backoff)
Elapse(c) ==
  /\ ~cancelled[c] /\ GoTo(c, "backoff", "limiter")
  /\ \E w \in Waits(attempt[c]) : waited' = [waited EXCEPT ![c] = @ + w]
  /\ UNCHANGED <<attempt, asked, outcome, cancelled>>

\* ctx.Done() while it backs off, or in limiter.Wait
GiveUp(c) ==
  /\ cancelled[c] /\ \E k \in {"backoff", "limiter"} : ReturnAs(c, k, "cancelled")
  /\ UNCHANGED <<attempt, asked, waited, cancelled>>

Granted(c) ==
  /\ ~cancelled[c] /\ GoTo(c, "limiter", "send")
  /\ UNCHANGED <<attempt, asked, waited, outcome, cancelled>>

\* Mutation: the last attempt is left out.
Bug_LastAttempt(c) == attempt[c] + 1 >= MaxRetries

LastAttempt(c) == attempt[c] = MaxRetries

\* Failed is a transport error (a done context makes it one), a body that breaks
\* off, a 5xx or a 429: all that is asked again.
Failed(c) ==
  \/ LastAttempt(c) /\ ReturnAs(c, "send", "exceeded") /\ UNCHANGED attempt
  \/ /\ ~LastAttempt(c) /\ GoTo(c, "send", "backoff")
     /\ attempt' = [attempt EXCEPT ![c] = @ + 1] /\ UNCHANGED outcome

Answered(c, o) == ~cancelled[c] /\ ReturnAs(c, "send", o) /\ UNCHANGED attempt

Do(c) ==
  /\ Answered(c, "body") \/ Answered(c, "refused") \/ Failed(c)
  /\ asked' = [asked EXCEPT ![c] = @ + 1]
  /\ UNCHANGED <<waited, cancelled>>

\* The caller has the outcome; the variables of the call are gone.
Got(c) ==
  /\ GoTo(c, "done", "idle")
  /\ attempt' = [attempt EXCEPT ![c] = 0]
  /\ asked' = [asked EXCEPT ![c] = 0]
  /\ waited' = [waited EXCEPT ![c] = 0]
  /\ outcome' = [outcome EXCEPT ![c] = "none"]

GetStep(c) == Elapse(c) \/ GiveUp(c) \/ Granted(c) \/ Do(c)

\* The client with callers that call, cancel and renew their contexts at will.
CallerStep(c) ==
  \/ Get(c)
  \/ Got(c) /\ \E b \in BOOLEAN : cancelled' = [cancelled EXCEPT ![c] = b]
  \/ cancelled' = [cancelled EXCEPT ![c] = TRUE] /\ UNCHANGED <<at, attempt, asked, waited, outcome>>

HttpNext == \E c \in Callers : CallerStep(c) \/ GetStep(c)
HttpSpec == HttpInit /\ [][HttpNext]_httpVars

-----------------------------------------------------------------------------
(* Properties.                                                              *)

\* The time n backoffs take at least; at most it is less than twice that.
LeastWait[n \in 0 .. MaxRetries] == IF n = 0 THEN 0 ELSE LeastWait[n - 1] + Half(n)

GaveUp(c) == outcome[c] = "exceeded"

AllAsked  == \A c \in Callers : GaveUp(c) => asked[c] = MaxRetries + 1
AllWaited ==
  \A c \in Callers : GaveUp(c) =>
    waited[c] \in LeastWait[MaxRetries] .. 2 * LeastWait[MaxRetries] - MaxRetries

\* "max retries exceeded" (client.go:132) is the answer only to a caller whose
\* request has failed MaxRetries + 1 times, with all the backoffs between them;
\* jitter, cap and cancellation neither save an attempt nor add one.
GivesUpLate == AllAsked /\ AllWaited
=============================================================================
