----------------------------- MODULE FlowProofs -----------------------------
(***************************************************************************)
(* Theorems about the two flows that pass through several parts of the     *)
(* system: of the articles into the tables (IngestFlow), where no mark is  *)
(* without its article and no fetch is given up early, and of the prices into*)
(* the signals (SignalFlow), which rest on a factor, never fall with better*)
(* news or a higher price, and keep through a split.  They hold for any    *)
(* number of runs, pages, retries, prices and days, and any periods.       *)
(***************************************************************************)
EXTENDS IngestFlow, SignalFlow, WellFoundedInduction, FiniteSetTheorems, SequenceTheorems, TLAPS

-----------------------------------------------------------------------------
(* Marks.                                                                   *)

\* What the runs hold are sets of pages.
Shape == got \in [Callers -> SUBSET URLs] /\ item \in [Callers -> SUBSET URLs]

MarkInv == Shape /\ MarkedIsAccounted

LEMMA InitMarks == Init => MarkInv
BY DEF Init, HttpInit, MarkInv, Shape, MarkedIsAccounted, Underway

\* Articles underway in one run stay underway when another run's change.
LEMMA OthersKeep ==
  ASSUME Shape, NEW r \in Callers, NEW S, got' = SetTo(got, r, S)
  PROVE  /\ S \subseteq Underway'
         /\ Underway \ got[r] \subseteq Underway'
BY DEF Shape, SetTo, Underway

\* The steps of a pipeline up to the mark change none of what the invariant relates.
LEMMA FetchMarks ==
  ASSUME MarkInv, NEW r \in Callers,
         \/ Start(r) \/ Fetching(r) \/ Fetched(r) \/ PipelineReturns(r) \/ EndLoop(r) \/ Cancel(r)
         \/ \E u \in URLs : TakeItem(r, u)
  PROVE  MarkInv'
<1>1. UNCHANGED <<got, marks, table, excused>>
  BY DEF Start, TakeItem, Exists, Fetching, Fetched, PipelineReturns, EndLoop, Cancel, runVars
<1>2. item' \in [Callers -> SUBSET URLs]
  BY DEF MarkInv, Shape, Start, TakeItem, Exists, Fetching, Fetched, PipelineReturns,
         EndLoop, Cancel, runVars, SetTo
<1> QED BY <1>1, <1>2 DEF MarkInv, Shape, MarkedIsAccounted, Underway

\* The mark and the result: collected, or excused.
LEMMA SetKeyMarks ==
  ASSUME MarkInv, NEW r \in Callers, SetKey(r)
  PROVE  MarkInv'
<1> USE DEF MarkInv, Shape
<1>1. /\ table' = table
      /\ item' = SetTo(item, r, {})
      /\ marks' \subseteq marks \cup item[r]
  BY DEF SetKey
<1>2. CASE got' = SetTo(got, r, got[r] \cup item[r]) /\ UNCHANGED excused
  <2>1. got[r] \cup item[r] \subseteq Underway' /\ Underway \ got[r] \subseteq Underway'
    BY <1>2, OthersKeep
  <2> QED BY <1>1, <1>2, <2>1 DEF MarkedIsAccounted, SetTo
<1>3. CASE got' = got /\ Excuse(item[r], marks')
  <2>1. Underway' = Underway /\ excused' = excused \cup ((item[r] \cap marks') \ table)
    BY <1>3 DEF Underway, Excuse
  <2> QED BY <1>1, <1>3, <2>1 DEF MarkedIsAccounted, SetTo
<1> QED BY <1>2, <1>3 DEF SetKey

\* An article that leaves the hands of a run is in the table, or excused.
LEMMA IngestMarks ==
  ASSUME MarkInv, NEW r \in Callers, NEW u \in URLs, Ingest(r, u)
  PROVE  MarkInv'
<1> USE DEF MarkInv, Shape
<1>1. /\ UNCHANGED <<item, marks>>
      /\ got' = SetTo(got, r, got[r] \ {u})
      /\ \/ table' = table \cup {u} /\ excused' = excused \ {u}
         \/ u \in table /\ UNCHANGED <<table, excused>>
         \/ excused' = excused \cup (({u} \cap marks) \ table) /\ UNCHANGED table
  BY DEF Ingest, Excuse
<1>2. got[r] \ {u} \subseteq Underway' /\ Underway \ got[r] \subseteq Underway'
  BY <1>1, OthersKeep
<1> QED BY <1>1, <1>2 DEF MarkedIsAccounted, SetTo

LEMMA StopMarks ==
  ASSUME MarkInv, NEW r \in Callers, StopLoop(r)
  PROVE  MarkInv'
<1> USE DEF MarkInv, Shape
<1>1. /\ UNCHANGED <<item, marks, table>>
      /\ got' = SetTo(got, r, {})
      /\ excused' = excused \cup ((got[r] \cap marks) \ table)
  BY DEF StopLoop, Excuse
<1>2. Underway \ got[r] \subseteq Underway'
  BY <1>1, OthersKeep
<1> QED BY <1>1, <1>2 DEF MarkedIsAccounted, SetTo

LEMMA NextMarks == MarkInv /\ [Next]_vars => MarkInv'
<1> SUFFICES ASSUME MarkInv, [Next]_vars PROVE MarkInv'
  OBVIOUS
<1>1. CASE \E r \in Callers : Start(r) \/ RunStep(r) \/ Cancel(r)
  <2> PICK r \in Callers : Start(r) \/ RunStep(r) \/ Cancel(r)
    BY <1>1
  <2>1. CASE SetKey(r)
    BY <2>1, SetKeyMarks
  <2>2. CASE \E u \in URLs : Ingest(r, u)
    BY <2>2, IngestMarks
  <2>3. CASE StopLoop(r)
    BY <2>3, StopMarks
  <2> QED BY <2>1, <2>2, <2>3, FetchMarks DEF RunStep
<1>2. CASE Crash
  BY <1>2 DEF Crash, Excuse, MarkInv, Shape, MarkedIsAccounted, Underway
<1>3. CASE Settle
  BY <1>3 DEF Settle, runVars, MarkInv, Shape, MarkedIsAccounted, Underway
<1>4. CASE \E u \in URLs : Expire(u)
  BY <1>4 DEF Expire, runVars, MarkInv, Shape, MarkedIsAccounted, Underway
<1>5. CASE UNCHANGED vars
  BY <1>5 DEF vars, runVars, MarkInv, Shape, MarkedIsAccounted, Underway
<1> QED BY <1>1, <1>2, <1>3, <1>4, <1>5 DEF Next

\* A page whose mark is set is in the table, underway in some run, or its run was
\* cut off: for any runs and pages, in any interleaving, with any crashes.
THEOREM MarksAlwaysAccounted == Spec => []MarkedIsAccounted
<1>1. Spec => []MarkInv
  BY InitMarks, NextMarks, PTL DEF Spec
<1>2. MarkInv => MarkedIsAccounted
  BY DEF MarkInv
<1> QED BY <1>1, <1>2, PTL

-----------------------------------------------------------------------------
(* Attempts of a fetch.                                                     *)

HttpShape ==
  /\ at \in [Callers -> {"idle", "backoff", "limiter", "send", "done"}]
  /\ attempt \in [Callers -> Nat] /\ asked \in [Callers -> Nat]
  /\ outcome \in [Callers -> {"none", "body", "refused", "exceeded", "cancelled"}]

\* Under way, a call has sent one request for each time it has gone on to another
\* attempt; after the last attempt it has sent one more than there are retries.
CountedUp(c) ==
  /\ at[c] = "idle" => asked[c] = 0 /\ attempt[c] = 0
  /\ at[c] \in {"backoff", "limiter", "send"} => asked[c] = attempt[c]
  /\ GaveUp(c) => at[c] = "done" /\ asked[c] = MaxRetries + 1

CountInv == HttpShape /\ \A c \in Callers : CountedUp(c)

LEMMA InitCount == HttpInit => CountInv
BY DEF HttpInit, CountInv, HttpShape, CountedUp, GaveUp

\* A step of one call leaves the others alone.
LEMMA CallCount ==
  ASSUME CountInv, NEW c \in Callers, Get(c) \/ GetStep(c) \/ Got(c)
  PROVE  CountInv'
<1> USE HttpAssumption DEF CountInv, HttpShape, CountedUp, GaveUp, GoTo, ReturnAs
<1>1. CASE Get(c) \/ Elapse(c) \/ GiveUp(c) \/ Granted(c)
  BY <1>1 DEF Get, Elapse, GiveUp, Granted
<1>2. CASE Do(c)
  <2>1. asked' = [asked EXCEPT ![c] = asked[c] + 1]
    BY <1>2 DEF Do
  <2>2. CASE \E o \in {"body", "refused"} : Answered(c, o)
    BY <2>1, <2>2 DEF Answered
  <2>3. CASE Failed(c)
    BY <2>1, <2>3 DEF Failed, LastAttempt
  <2> QED BY <1>2, <2>2, <2>3 DEF Do
<1>3. CASE Got(c)
  BY <1>3 DEF Got
<1> QED BY <1>1, <1>2, <1>3 DEF GetStep

LEMMA CancelCount == CountInv /\ UNCHANGED <<at, attempt, asked, waited, outcome>> => CountInv'
BY DEF CountInv, HttpShape, CountedUp, GaveUp

LEMMA CountAll == CountInv => AllAsked
BY DEF CountInv, CountedUp, AllAsked

-----------------------------------------------------------------------------
(* Induction over the natural numbers, and functions defined by recursion.  *)

LEMMA Smallest ==
  ASSUME NEW T, T \subseteq Nat, T # {}
  PROVE  \E n \in T : \A m \in T : n <= m
<1> DEFINE R == {p \in Nat \X Nat : p[1] < p[2]}
<1>0. R = OpToRel(<, Nat)
  BY DEF OpToRel
<1>1. IsWellFoundedOn(R, Nat)
  BY <1>0, NatLessThanWellFounded
<1> HIDE DEF R
<1>2. PICK n \in T : \A m \in T : ~ (<<m, n>> \in R)
  BY <1>1, WFMin
<1>3. ASSUME NEW m \in T PROVE n <= m
  <2>1. n \in Nat /\ m \in Nat
    OBVIOUS
  <2>2. <<m, n>> \in Nat \X Nat
    BY <2>1
  <2>3. ~(m < n)
    BY <1>2, <2>2 DEF R
  <2> QED BY <2>1, <2>3
<1> QED BY <1>3

\* A set that holds 0 and with each number the next holds them all.
LEMMA Induction ==
  ASSUME NEW S, 0 \in S, \A n \in Nat : n \in S => n + 1 \in S
  PROVE  Nat \subseteq S
<1> SUFFICES ASSUME Nat \ S # {} PROVE FALSE
  OBVIOUS
<1>1. PICK n \in Nat \ S : \A m \in Nat \ S : n <= m
  BY Smallest
<1>2. n # 0 /\ n - 1 \in Nat
  OBVIOUS
<1>3. n - 1 \in S
  BY <1>1, <1>2
<1>4. (n - 1) + 1 \in S
  BY <1>2, <1>3
<1>5. (n - 1) + 1 = n
  OBVIOUS
<1> QED BY <1>4, <1>5

\* A sequence of values is given by the first and by what each next one is made from.
Recursive(g, V, a, h) ==
  g \in [Nat -> V] /\ g[0] = a /\ \A n \in Nat : g[n + 1] = h[<<n, g[n]>>]

LEMMA Recursion ==
  ASSUME NEW V, NEW a \in V, NEW h \in [Nat \X V -> V]
  PROVE  \E g : Recursive(g, V, a, h)
<1> DEFINE Good(g, n) == g[0] = a /\ \A k \in 0 .. n - 1 : g[k + 1] = h[<<k, g[k]>>]
           Upto(n) == {g \in [0 .. n -> V] : Good(g, n)}
           S == {n \in Nat : Upto(n) # {}}
<1>1. 0 \in S
  <2>1. [k \in 0 .. 0 |-> a] \in Upto(0)
    OBVIOUS
  <2> QED BY <2>1
<1>2. ASSUME NEW n \in Nat, n \in S PROVE n + 1 \in S
  <2>1. PICK g : g \in Upto(n)
    BY <1>2
  <2> DEFINE f == [k \in 0 .. n + 1 |-> IF k = n + 1 THEN h[<<n, g[n]>>] ELSE g[k]]
  <2>2. h[<<n, g[n]>>] \in V
    BY <2>1
  <2>3. f \in [0 .. n + 1 -> V]
    BY <2>1, <2>2
  <2>4. f[0] = a
    BY <2>1
  <2>5. ASSUME NEW k \in 0 .. (n + 1) - 1 PROVE f[k + 1] = h[<<k, f[k]>>]
    <3>1. k \in 0 .. n + 1 /\ k + 1 \in 0 .. n + 1 /\ k # n + 1
      OBVIOUS
    <3>2. f[k] = g[k]
      BY <3>1
    <3>3. CASE k = n
      BY <3>1, <3>2, <3>3
    <3>4. CASE k # n
      <4>1. k \in 0 .. n - 1 /\ f[k + 1] = g[k + 1]
        BY <3>1, <3>4
      <4> QED BY <2>1, <3>2, <4>1
    <3> QED BY <3>3, <3>4
  <2> HIDE DEF f
  <2>6. f \in Upto(n + 1) /\ n + 1 \in Nat
    BY <2>3, <2>4, <2>5
  <2> HIDE DEF Upto
  <2> QED BY <2>6
<1>3. Nat \subseteq S
  <2> HIDE DEF S
  <2> QED BY <1>1, <1>2, Induction
\* Two such functions agree as far as both go.
<1>4. ASSUME NEW n \in Nat, NEW m \in Nat, NEW f \in Upto(n), NEW g \in Upto(m)
      PROVE  \A k \in Nat : k <= n /\ k <= m => f[k] = g[k]
  <2> DEFINE A == {k \in Nat : k <= n /\ k <= m => f[k] = g[k]}
  <2>1. 0 \in A
    OBVIOUS
  <2>2. ASSUME NEW k \in Nat, k \in A PROVE k + 1 \in A
    <3>1. CASE k + 1 <= n /\ k + 1 <= m
      <4>1. k \in 0 .. n - 1 /\ k \in 0 .. m - 1
        BY <3>1
      <4>2. f[k + 1] = h[<<k, f[k]>>] /\ g[k + 1] = h[<<k, g[k]>>] /\ f[k] = g[k]
        BY <2>2, <4>1
      <4> QED BY <4>2
    <3> QED BY <3>1
  <2>3. Nat \subseteq A
    <3> HIDE DEF A
    <3> QED BY <2>1, <2>2, Induction
  <2> QED BY <2>3
<1> DEFINE G == [n \in Nat |-> (CHOOSE g : g \in Upto(n))[n]]
<1>5. ASSUME NEW n \in Nat PROVE (CHOOSE g : g \in Upto(n)) \in Upto(n)
  BY <1>3
<1>6. G \in [Nat -> V]
  <2>1. ASSUME NEW n \in Nat PROVE G[n] \in V
    BY <1>5
  <2> QED BY <2>1
<1>7. G[0] = a
  BY <1>5
<1>8. ASSUME NEW n \in Nat PROVE G[n + 1] = h[<<n, G[n]>>]
  <2> DEFINE f == CHOOSE g : g \in Upto(n)
             g == CHOOSE g : g \in Upto(n + 1)
  <2>1. f \in Upto(n) /\ g \in Upto(n + 1)
    <3> HIDE DEF Upto
    <3>1. n + 1 \in Nat
      OBVIOUS
    <3> QED BY <1>5, <3>1
  <2>2. f[n] = g[n]
    <3> HIDE DEF f, g, Upto
    <3> QED BY <1>4, <2>1
  <2>3. g[n + 1] = h[<<n, g[n]>>]
    <3> HIDE DEF f, g
    <3>1. n \in 0 .. (n + 1) - 1
      OBVIOUS
    <3> QED BY <2>1, <3>1
  <2>4. G[n] = f[n] /\ G[n + 1] = g[n + 1]
    OBVIOUS
  <2> QED BY <2>2, <2>3, <2>4
<1> HIDE DEF G
<1> QED BY <1>6, <1>7, <1>8 DEF Recursive

-----------------------------------------------------------------------------
(* Time spent in backoffs.                                                  *)

\* Half a backoff is a positive number: there is jitter in every wait.
LEMMA HalfType == \A n \in 1 .. MaxRetries : Half(n) \in Nat \ {0}
<1> SUFFICES ASSUME NEW n \in 1 .. MaxRetries PROVE Half(n) \in Nat \ {0}
  OBVIOUS
<1>1. Exponential[n] \in Nat /\ Exponential[n] >= 2
  BY HttpAssumption
<1>2. Backoff(n) \in Nat /\ Backoff(n) >= 2
  BY <1>1, HttpAssumption DEF Backoff
<1> QED BY <1>2 DEF Half

\* The recursive definition of the least wait has its solution.
LEMMA LeastWaitDef ==
  /\ LeastWait[0] = 0
  /\ \A n \in 0 .. MaxRetries : LeastWait[n] \in Nat
  /\ \A n \in 1 .. MaxRetries : LeastWait[n] = LeastWait[n - 1] + Half(n)
<1> DEFINE D == 0 .. MaxRetries
           more == [p \in Nat \X Nat |-> IF p[1] + 1 \in D THEN p[2] + Half(p[1] + 1) ELSE 0]
<1>1. more \in [Nat \X Nat -> Nat]
  <2> SUFFICES ASSUME NEW n \in Nat, NEW v \in Nat
               PROVE  (IF n + 1 \in D THEN v + Half(n + 1) ELSE 0) \in Nat
    OBVIOUS
  <2>1. n + 1 \in D => Half(n + 1) \in Nat
    BY HalfType, HttpAssumption
  <2> QED BY <2>1
<1>2. PICK g \in [Nat -> Nat] : g[0] = 0 /\ \A n \in Nat : g[n + 1] = more[<<n, g[n]>>]
  <2> HIDE DEF more
  <2>1. PICK g : Recursive(g, Nat, 0, more)
    BY <1>1, Recursion
  <2> QED BY <2>1 DEF Recursive
<1> DEFINE w == [n \in D |-> g[n]]
<1>3. w = [n \in D |-> IF n = 0 THEN 0 ELSE w[n - 1] + Half(n)]
  <2>1. ASSUME NEW n \in D, n # 0 PROVE w[n] = w[n - 1] + Half(n)
    <3>1. n \in Nat /\ n - 1 \in Nat /\ n - 1 \in D /\ (n - 1) + 1 = n
      BY <2>1, HttpAssumption
    <3>2. g[n] = more[<<n - 1, g[n - 1]>>]
      BY <1>2, <3>1
    <3>3. more[<<n - 1, g[n - 1]>>] = g[n - 1] + Half(n)
      BY <1>2, <3>1
    <3> QED BY <3>1, <3>2, <3>3
  <2>2. w[0] = 0
    BY <1>2, HttpAssumption
  <2>3. w = [n \in D |-> w[n]]
    OBVIOUS
  <2> HIDE DEF w, D
  <2> QED BY <2>1, <2>2, <2>3
<1>4. LeastWait = [n \in D |-> IF n = 0 THEN 0 ELSE LeastWait[n - 1] + Half(n)]
  <2> HIDE DEF w
  <2> QED BY <1>3 DEF LeastWait
<1> DEFINE A == {n \in Nat : n \in D => LeastWait[n] \in Nat}
<1>5. Nat \subseteq A
  <2>1. 0 \in A
    BY <1>4
  <2>2. ASSUME NEW n \in Nat, n \in A PROVE n + 1 \in A
    <3>1. CASE n + 1 \in D
      <4>1. n \in D /\ n + 1 # 0 /\ (n + 1) - 1 = n
        BY <3>1, HttpAssumption
      <4>2. LeastWait[n + 1] = LeastWait[n] + Half(n + 1)
        BY <1>4, <3>1, <4>1
      <4>3. Half(n + 1) \in Nat
        BY <3>1, HalfType, HttpAssumption
      <4> QED BY <2>2, <4>1, <4>2, <4>3
    <3> QED BY <3>1
  <2> HIDE DEF A
  <2> QED BY <2>1, <2>2, Induction
<1>6. ASSUME NEW n \in 0 .. MaxRetries PROVE LeastWait[n] \in Nat
  BY <1>5, HttpAssumption
<1>7. LeastWait[0] = 0
  BY <1>4, HttpAssumption
<1>8. ASSUME NEW n \in 1 .. MaxRetries PROVE LeastWait[n] = LeastWait[n - 1] + Half(n)
  <2>1. n \in D /\ n # 0
    BY HttpAssumption
  <2> HIDE DEF D
  <2> QED BY <1>4, <2>1
<1> QED BY <1>6, <1>7, <1>8

\* The time that n backoffs may take.
Spent(n) == LeastWait[n] .. 2 * LeastWait[n] - n

\* One more backoff takes between half of it and all of it.
LEMMA OneMore ==
  ASSUME NEW n \in 1 .. MaxRetries, NEW t \in Spent(n - 1), NEW w \in Waits(n)
  PROVE  t + w \in Spent(n)
<1>1. n \in Nat /\ n - 1 \in 0 .. MaxRetries /\ n \in 0 .. MaxRetries
  BY HttpAssumption
<1>2. /\ LeastWait[n - 1] \in Nat /\ Half(n) \in Nat
      /\ LeastWait[n] = LeastWait[n - 1] + Half(n)
  BY <1>1, LeastWaitDef, HalfType
<1> QED BY <1>1, <1>2 DEF Spent, Waits

\* Under way, a call has waited as long as the backoffs behind it take.
WaitedUp(c) ==
  /\ at[c] = "idle" => waited[c] = 0
  /\ at[c] \in {"limiter", "send"} => waited[c] \in Spent(attempt[c])
  /\ at[c] = "backoff" => attempt[c] # 0 /\ waited[c] \in Spent(attempt[c] - 1)
  /\ GaveUp(c) => waited[c] \in Spent(MaxRetries)

WaitInv ==
  /\ CountInv
  /\ attempt \in [Callers -> 0 .. MaxRetries] /\ DOMAIN waited = Callers
  /\ \A c \in Callers : WaitedUp(c)

LEMMA InitWait == HttpInit => WaitInv
BY InitCount, HttpAssumption DEF HttpInit, WaitInv, WaitedUp, GaveUp

\* A step of one call leaves the others alone.
LEMMA CallWait ==
  ASSUME WaitInv, NEW c \in Callers, Get(c) \/ GetStep(c) \/ Got(c)
  PROVE  WaitInv'
<1>1. CountInv'
  BY CallCount DEF WaitInv
<1> USE HttpAssumption DEF WaitInv, WaitedUp, GaveUp, GoTo, ReturnAs
<1>2. CountedUp(c) /\ HttpShape
  BY DEF CountInv
<1>3. CASE Get(c)
  <2>1. 0 \in Spent(0)
    BY LeastWaitDef DEF Spent
  <2>2. waited[c] \in Spent(attempt[c])
    BY <1>2, <1>3, <2>1 DEF Get, CountedUp
  <2> QED BY <1>1, <1>2, <1>3, <2>2 DEF Get, HttpShape
<1>4. CASE Elapse(c)
  <2>1. PICK w \in Waits(attempt[c]) : waited' = [waited EXCEPT ![c] = waited[c] + w]
    BY <1>4 DEF Elapse
  <2>2. attempt[c] \in 1 .. MaxRetries /\ waited[c] \in Spent(attempt[c] - 1)
    BY <1>4 DEF Elapse
  <2>3. waited[c] + w \in Spent(attempt[c])
    BY <2>2, OneMore
  <2>4. /\ at' = [at EXCEPT ![c] = "limiter"] /\ UNCHANGED <<attempt, outcome>>
        /\ at[c] = "backoff" /\ at'[c] = "limiter" /\ \A d \in Callers \ {c} : at'[d] = at[d]
    BY <1>2, <1>4 DEF Elapse, HttpShape
  <2>5. ASSUME NEW d \in Callers PROVE WaitedUp(d)'
    <3>1. CASE d = c
      <4>1. at'[d] = "limiter" /\ waited'[d] \in Spent(attempt'[d]) /\ outcome'[d] # "exceeded"
        BY <1>2, <2>1, <2>3, <2>4, <3>1 DEF CountedUp
      <4> QED BY <4>1
    <3>2. CASE d # c
      BY <2>1, <2>4, <3>2
    <3> QED BY <3>1, <3>2
  <2> QED BY <1>1, <2>1, <2>4, <2>5
<1>5. CASE GiveUp(c) \/ Granted(c)
  BY <1>1, <1>2, <1>5 DEF GiveUp, Granted, HttpShape, CountedUp
<1>6. CASE Do(c)
  <2>1. CASE \E o \in {"body", "refused"} : Answered(c, o)
    BY <1>1, <1>2, <1>6, <2>1 DEF Do, Answered, HttpShape
  <2>2. CASE LastAttempt(c) /\ ReturnAs(c, "send", "exceeded") /\ UNCHANGED attempt
    BY <1>1, <1>2, <1>6, <2>2 DEF Do, LastAttempt, HttpShape
  <2>3. CASE /\ ~LastAttempt(c) /\ GoTo(c, "send", "backoff")
             /\ attempt' = [attempt EXCEPT ![c] = attempt[c] + 1] /\ UNCHANGED outcome
    <3>1. attempt[c] + 1 \in 0 .. MaxRetries /\ attempt[c] + 1 # 0 /\ (attempt[c] + 1) - 1 = attempt[c]
      BY <2>3 DEF LastAttempt
    <3> QED BY <1>1, <1>2, <1>6, <2>3, <3>1 DEF Do, HttpShape
  <2> QED BY <1>6, <2>1, <2>2, <2>3 DEF Do, Failed
<1>7. CASE Got(c)
  BY <1>1, <1>2, <1>7 DEF Got, HttpShape
<1> QED BY <1>3, <1>4, <1>5, <1>6, <1>7 DEF GetStep

LEMMA CancelWait == WaitInv /\ UNCHANGED <<at, attempt, asked, waited, outcome>> => WaitInv'
BY CancelCount DEF WaitInv, WaitedUp, GaveUp

LEMMA WaitAll == WaitInv => GivesUpLate
BY CountAll DEF WaitInv, WaitedUp, Spent, AllWaited, GivesUpLate

LEMMA ClientWait == WaitInv /\ [HttpNext]_httpVars => WaitInv'
BY CallWait, CancelWait DEF HttpNext, CallerStep, httpVars

\* For any callers that use the client at will, any number of retries and any
\* jitter, cap and cancellation: whoever is told that the retries are used up has
\* had all of its requests sent, and has waited for all the backoffs between them.
THEOREM ClientGivesUpLate == HttpSpec => []GivesUpLate
BY InitWait, ClientWait, WaitAll, PTL DEF HttpSpec

\* Whatever a run does, and whatever crashes, is such a step of its call.
LEMMA FlowWait == WaitInv /\ [Next]_vars => WaitInv'
<1> SUFFICES ASSUME WaitInv, [Next]_vars PROVE WaitInv'
  OBVIOUS
<1>1. ASSUME NEW r \in Callers, Start(r) \/ RunStep(r) \/ Cancel(r)
      PROVE  WaitInv'
  <2>1. CASE Get(r) \/ GetStep(r) \/ Got(r)
    BY <2>1, CallWait
  <2>2. CASE UNCHANGED <<at, attempt, asked, waited, outcome>>
    BY <2>2, CancelWait
  <2> QED BY <1>1, <2>1, <2>2
          DEF Start, RunStep, Cancel, TakeItem, Exists, Fetching, Fetched, SetKey,
              PipelineReturns, Ingest, StopLoop, EndLoop, httpVars
<1>2. CASE Crash
  <2>1. \A r \in Callers : at'[r] = "idle" /\ attempt'[r] = 0 /\ asked'[r] = 0 /\ waited'[r] = 0
                           /\ outcome'[r] = "none"
    BY <1>2 DEF Crash
  <2>2. CountInv'
    BY <1>2, HttpAssumption DEF Crash, CountInv, HttpShape, CountedUp, GaveUp
  <2> QED BY <1>2, <2>1, <2>2, HttpAssumption DEF Crash, WaitInv, WaitedUp, GaveUp
<1>3. CASE Settle \/ \E u \in URLs : Expire(u)
  BY <1>3, CancelWait DEF Settle, Expire, httpVars
<1>4. CASE UNCHANGED vars
  BY <1>4, CancelWait DEF vars, httpVars
<1> QED BY <1>1, <1>2, <1>3, <1>4 DEF Next

\* The same of the runs of IngestFlow, whatever crashes and is cancelled.
THEOREM RunsGiveUpLate == Spec => []GivesUpLate
<1>1. Init => WaitInv
  BY InitWait DEF Init
<1> QED BY <1>1, FlowWait, WaitAll, PTL DEF Spec

\* The types of a call, which follow from what it has sent and waited for.
WaitTypes == waited \in [Callers -> Nat] /\ cancelled \in [Callers -> BOOLEAN]
           /\ asked \in [Callers -> 0 .. MaxRetries + 1]

\* A call sends its last request after its last retry, and waits longer each time.
LEMMA CallTypes ==
  ASSUME WaitInv, WaitTypes, NEW c \in Callers, Get(c) \/ GetStep(c) \/ Got(c)
  PROVE  waited' \in [Callers -> Nat] /\ asked' \in [Callers -> 0 .. MaxRetries + 1]
<1> USE HttpAssumption DEF WaitTypes
<1>1. CASE Elapse(c)
  <2>1. attempt[c] \in 1 .. MaxRetries
    BY <1>1 DEF Elapse, GoTo, WaitInv, WaitedUp
  <2>2. PICK w \in Waits(attempt[c]) : waited' = [waited EXCEPT ![c] = waited[c] + w]
    BY <1>1 DEF Elapse
  <2>3. w \in Nat
    BY <2>1, <2>2, HalfType DEF Waits
  <2> QED BY <1>1, <2>2, <2>3 DEF Elapse
<1>2. CASE Do(c)
  <2>1. asked[c] = attempt[c] /\ attempt[c] \in 0 .. MaxRetries
    BY <1>2 DEF Do, Answered, Failed, GoTo, ReturnAs, WaitInv, CountInv, CountedUp
  <2>2. asked[c] + 1 \in 0 .. MaxRetries + 1
    BY <2>1
  <2> QED BY <1>2, <2>2 DEF Do
<1>3. CASE Get(c) \/ GiveUp(c) \/ Granted(c) \/ Got(c)
  BY <1>3 DEF Get, GiveUp, Granted, Got
<1> QED BY <1>1, <1>2, <1>3 DEF GetStep

LEMMA HttpTypes == WaitInv /\ WaitTypes => HttpTypeOK
BY DEF WaitInv, WaitTypes, CountInv, HttpShape, HttpTypeOK

LEMMA InitTypes == HttpInit => WaitTypes
BY HttpAssumption DEF HttpInit, WaitTypes

\* The types of the client: no call goes beyond MaxRetries + 1 requests, whatever it
\* is answered and whenever it is cancelled.
THEOREM HttpTypeCorrect == HttpSpec => []HttpTypeOK
<1>1. WaitInv /\ WaitTypes /\ [HttpNext]_httpVars => WaitTypes'
  <2> SUFFICES ASSUME WaitInv, WaitTypes, [HttpNext]_httpVars PROVE WaitTypes'
    OBVIOUS
  <2>1. cancelled' \in [Callers -> BOOLEAN]
    BY DEF WaitTypes, HttpNext, CallerStep, GetStep, Get, Elapse, GiveUp, Granted, Do, httpVars
  <2>2. waited' \in [Callers -> Nat] /\ asked' \in [Callers -> 0 .. MaxRetries + 1]
    <3>1. CASE UNCHANGED <<asked, waited>>
      BY <3>1 DEF WaitTypes
    <3>2. CASE \E c \in Callers : Get(c) \/ GetStep(c) \/ Got(c)
      BY <3>2, CallTypes
    <3> QED BY <3>1, <3>2 DEF HttpNext, CallerStep, httpVars
  <2> QED BY <2>1, <2>2 DEF WaitTypes
<1> QED BY InitWait, InitTypes, <1>1, ClientWait, HttpTypes, PTL DEF HttpSpec

-----------------------------------------------------------------------------
(* The types of a run.                                                      *)

RunTypes ==
  /\ Shape
  /\ rpc \in [Callers -> {"idle", "scrape", "fetch", "mark", "ingest"}]
  /\ todo \in [Callers -> SUBSET URLs]
  /\ marks \in SUBSET URLs /\ table \in SUBSET URLs /\ excused \in SUBSET URLs
  /\ calm \in BOOLEAN

LEMMA StepTypes ==
  ASSUME RunTypes, NEW r \in Callers, Start(r) \/ RunStep(r) \/ Cancel(r)
  PROVE  RunTypes'
<1> USE DEF RunTypes, Shape, SetTo, Move
<1>1. CASE Start(r)
  BY <1>1 DEF Start
<1>2. ASSUME NEW u \in URLs, TakeItem(r, u) PROVE RunTypes'
  BY <1>2 DEF TakeItem, Exists
<1>3. CASE Fetching(r)
  BY <1>3 DEF Fetching, runVars
<1>4. CASE Fetched(r)
  BY <1>4 DEF Fetched
<1>5. CASE SetKey(r)
  BY <1>5 DEF SetKey, Excuse
<1>6. CASE PipelineReturns(r) \/ EndLoop(r)
  BY <1>6 DEF PipelineReturns, EndLoop
<1>7. ASSUME NEW u \in URLs, Ingest(r, u) PROVE RunTypes'
  BY <1>7 DEF Ingest, Excuse
<1>8. CASE StopLoop(r)
  BY <1>8 DEF StopLoop, Excuse
<1>9. CASE Cancel(r)
  BY <1>9 DEF Cancel, runVars
<1> QED BY <1>1, <1>2, <1>3, <1>4, <1>5, <1>6, <1>7, <1>8, <1>9 DEF RunStep

LEMMA NextTypes == RunTypes /\ [Next]_vars => RunTypes'
<1> SUFFICES ASSUME RunTypes, [Next]_vars PROVE RunTypes'
  OBVIOUS
<1>1. CASE Crash
  BY <1>1 DEF Crash, Excuse, RunTypes, Shape
<1>2. CASE Settle \/ (\E u \in URLs : Expire(u)) \/ UNCHANGED vars
  BY <1>2 DEF Settle, Expire, vars, runVars, RunTypes, Shape
<1> QED BY <1>1, <1>2, StepTypes DEF Next

\* The types of runs, marks and table, and in every one of these states those of the
\* calls the runs make.
THEOREM FlowTypeCorrect == Spec => [](FlowTypeOK /\ HttpTypeOK)
<1>1. Init => WaitInv /\ WaitTypes /\ RunTypes
  BY InitWait, InitTypes DEF Init, RunTypes, Shape
<1>2. WaitInv /\ WaitTypes /\ [Next]_vars => WaitTypes'
  <2> SUFFICES ASSUME WaitInv, WaitTypes, [Next]_vars PROVE WaitTypes'
    OBVIOUS
  <2>1. cancelled' \in [Callers -> BOOLEAN]
    <3>1. CASE \E r \in Callers : Start(r) \/ Cancel(r)
      BY <3>1 DEF WaitTypes, Start, Cancel
    <3>2. CASE UNCHANGED cancelled
      BY <3>2 DEF WaitTypes
    <3>3. CASE Crash
      BY <3>3 DEF Crash
    <3>4. ASSUME NEW r \in Callers, NEW u \in URLs, TakeItem(r, u) \/ Ingest(r, u) PROVE UNCHANGED cancelled
      BY <3>4 DEF TakeItem, Exists, Get, Ingest, httpVars
    <3>5. ASSUME NEW r \in Callers, Fetching(r) \/ Fetched(r) PROVE UNCHANGED cancelled
      BY <3>5 DEF Fetching, GetStep, Elapse, GiveUp, Granted, Do, Fetched
    <3>6. ASSUME NEW r \in Callers, SetKey(r) \/ PipelineReturns(r) \/ StopLoop(r) \/ EndLoop(r)
          PROVE  UNCHANGED cancelled
      BY <3>6 DEF SetKey, PipelineReturns, StopLoop, EndLoop, httpVars
    <3>7. ASSUME Settle \/ (\E u \in URLs : Expire(u)) \/ UNCHANGED vars PROVE UNCHANGED cancelled
      BY <3>7 DEF Settle, Expire, vars, httpVars
    <3> QED BY <3>1, <3>2, <3>3, <3>4, <3>5, <3>6, <3>7 DEF Next, RunStep
  <2>2. waited' \in [Callers -> Nat] /\ asked' \in [Callers -> 0 .. MaxRetries + 1]
    <3>1. CASE UNCHANGED <<asked, waited>>
      BY <3>1 DEF WaitTypes
    <3>2. CASE \E c \in Callers : Get(c) \/ GetStep(c) \/ Got(c)
      BY <3>2, CallTypes
    <3>3. CASE Crash
      <4>1. asked' = [r \in Callers |-> 0] /\ waited' = [r \in Callers |-> 0]
        BY <3>3 DEF Crash
      <4>2. 0 \in Nat /\ 0 \in 0 .. MaxRetries + 1
        BY HttpAssumption
      <4> QED BY <4>1, <4>2
    <3>4. ASSUME NEW r \in Callers, NEW u \in URLs, TakeItem(r, u) \/ Ingest(r, u)
          PROVE  UNCHANGED <<asked, waited>>
      BY <3>4 DEF TakeItem, Exists, Get, Ingest, httpVars
    <3>5. ASSUME NEW r \in Callers, Fetching(r) \/ Fetched(r) PROVE GetStep(r) \/ Got(r)
      BY <3>5 DEF Fetching, Fetched
    <3>6. ASSUME NEW r \in Callers, SetKey(r) \/ PipelineReturns(r) \/ StopLoop(r) \/ EndLoop(r)
          PROVE  UNCHANGED <<asked, waited>>
      BY <3>6 DEF SetKey, PipelineReturns, StopLoop, EndLoop, httpVars
    <3>7. ASSUME \/ \E r \in Callers : Start(r) \/ Cancel(r)
                 \/ Settle \/ (\E u \in URLs : Expire(u)) \/ UNCHANGED vars
          PROVE  UNCHANGED <<asked, waited>>
      BY <3>7 DEF Start, Cancel, Settle, Expire, vars, httpVars
    <3> QED BY <3>1, <3>2, <3>3, <3>4, <3>5, <3>6, <3>7 DEF Next, RunStep
  <2> QED BY <2>1, <2>2 DEF WaitTypes
<1>3. WaitInv /\ WaitTypes /\ RunTypes => FlowTypeOK /\ HttpTypeOK
  BY HttpTypes DEF RunTypes, Shape, FlowTypeOK
<1> QED BY <1>1, <1>2, <1>3, FlowWait, NextTypes, PTL DEF Spec

-----------------------------------------------------------------------------
(* Sums.                                                                    *)

Pick(s) == CHOOSE x \in s : TRUE

\* A sum over the subsets of S: the empty one has none, any other one takes away an
\* element, chosen whatever the summands.
Sums(it, f, S) ==
  /\ it \in [SUBSET S -> Int] /\ it[{}] = 0
  /\ \A s \in SUBSET S : s # {} => Pick(s) \in s /\ it[s] = f[Pick(s)] + it[s \ {Pick(s)}]

\* A property of the subsets of a finite set, by their size.
LEMMA SubsetInduction ==
  ASSUME NEW S, IsFiniteSet(S), NEW P, {} \in P,
         \A s \in SUBSET S : s # {} /\ s \ {Pick(s)} \in P => s \in P
  PROVE  SUBSET S \subseteq P
<1> DEFINE N == {n \in Nat : \A s \in SUBSET S : Cardinality(s) = n => s \in P}
<1>1. \A s \in SUBSET S : IsFiniteSet(s) /\ Cardinality(s) \in Nat
  BY FS_Subset, FS_CardinalityType
<1>2. 0 \in N
  BY <1>1, FS_EmptySet
<1>3. ASSUME NEW n \in Nat, n \in N PROVE n + 1 \in N
  <2> SUFFICES ASSUME NEW s \in SUBSET S, Cardinality(s) = n + 1 PROVE s \in P
    OBVIOUS
  <2>1. s # {}
    BY FS_EmptySet
  <2>2. Pick(s) \in s
    BY <2>1 DEF Pick
  <2>3. Cardinality(s \ {Pick(s)}) = n
    BY <1>1, <2>2, FS_RemoveElement
  <2>4. s \ {Pick(s)} \in P
    BY <1>3, <2>3
  <2> QED BY <2>1, <2>4
<1>4. Nat \subseteq N
  <2> HIDE DEF N
  <2> QED BY <1>2, <1>3, Induction
<1> QED BY <1>1, <1>4

Solves(it, f, S) == it = [s \in SUBSET S |-> IF s = {} THEN 0 ELSE f[Pick(s)] + it[s \ {Pick(s)}]]

LEMMA SumExists ==
  ASSUME NEW S, IsFiniteSet(S), NEW f \in [S -> Int]
  PROVE  \E it : Solves(it, f, S)
<1> DEFINE V == [SUBSET S -> Int]
           zero == [s \in SUBSET S |-> 0]
           h == [p \in Nat \X V |-> [s \in SUBSET S |-> IF s = {} THEN 0 ELSE f[Pick(s)] + p[2][s \ {Pick(s)}]]]
<1>1. \A s \in SUBSET S : s # {} => Pick(s) \in s
  BY DEF Pick
<1>2. h \in [Nat \X V -> V]
  <2> DEFINE next(p, s) == IF s = {} THEN 0 ELSE f[Pick(s)] + p[2][s \ {Pick(s)}]
  <2>1. ASSUME NEW p \in Nat \X V, NEW s \in SUBSET S PROVE next(p, s) \in Int
    <3>1. CASE s # {}
      <4>1. f[Pick(s)] \in Int /\ s \ {Pick(s)} \in SUBSET S
        BY <1>1, <3>1
      <4>2. p[2][s \ {Pick(s)}] \in Int
        BY <4>1
      <4> QED BY <3>1, <4>1, <4>2
    <3> QED BY <3>1
  <2>2. h = [p \in Nat \X V |-> [s \in SUBSET S |-> next(p, s)]]
    OBVIOUS
  <2> HIDE DEF next, h
  <2>3. ASSUME NEW p \in Nat \X V PROVE h[p] \in V
    BY <2>1, <2>2
  <2> HIDE DEF V
  <2> QED BY <2>2, <2>3
<1>3. PICK g : Recursive(g, V, zero, h)
  <2>1. zero \in V
    OBVIOUS
  <2> HIDE DEF V, zero, h
  <2> QED BY <1>2, <2>1, Recursion
<1>4. g \in [Nat -> V] /\ g[0] = zero /\ \A n \in Nat : g[n + 1] = h[<<n, g[n]>>]
  BY <1>3 DEF Recursive
<1> HIDE DEF V
<1> DEFINE it == [s \in SUBSET S |-> g[Cardinality(s)][s]]
<1>5. it = [s \in SUBSET S |-> IF s = {} THEN 0 ELSE f[Pick(s)] + it[s \ {Pick(s)}]]
  <2> SUFFICES ASSUME NEW s \in SUBSET S
               PROVE  g[Cardinality(s)][s] = IF s = {} THEN 0 ELSE f[Pick(s)] + it[s \ {Pick(s)}]
    OBVIOUS
  <2>1. CASE s = {}
    BY <1>4, <2>1, FS_EmptySet
  <2>2. CASE s # {}
    <3> DEFINE r == s \ {Pick(s)}
               n == Cardinality(r)
    <3>1. n \in Nat /\ Cardinality(s) = n + 1
      <4>1. IsFiniteSet(s) /\ Pick(s) \in s
        BY <1>1, <2>2, FS_Subset
      <4>2. IsFiniteSet(r) /\ Cardinality(r) = Cardinality(s) - 1 /\ Cardinality(s) \in Nat
        BY <4>1, FS_RemoveElement, FS_CardinalityType
      <4>3. n \in Nat
        BY <4>2, FS_CardinalityType
      <4> QED BY <4>2, <4>3
    <3>2. g[n + 1] = h[<<n, g[n]>>] /\ g[n] \in V
      BY <1>4, <3>1
    <3>3. g[n + 1][s] = f[Pick(s)] + g[n][r]
      BY <2>2, <3>1, <3>2
    <3>4. it[r] = g[n][r]
      OBVIOUS
    <3> QED BY <2>2, <3>1, <3>3, <3>4
  <2> QED BY <2>1, <2>2
<1> QED BY <1>5 DEF Solves

LEMMA SumDef ==
  ASSUME NEW S, IsFiniteSet(S), NEW f \in [S -> Int]
  PROVE  \E it : Sums(it, f, S) /\ SumFunction(f) = it[S]
<1> DEFINE it == CHOOSE i : Solves(i, f, S)
<1>1. it = [s \in SUBSET S |-> IF s = {} THEN 0 ELSE f[Pick(s)] + it[s \ {Pick(s)}]]
  <2>1. Solves(it, f, S)
    BY SumExists
  <2> QED BY <2>1 DEF Solves
<1>2. SumFunction(f) = it[S]
  BY DEF Solves, SumFunction, SumFunctionOnSet, FoldFunctionOnSet, MapThenFoldSet, Pick
<1> HIDE DEF it
<1>3. \A s \in SUBSET S : s # {} => Pick(s) \in s /\ it[s] = f[Pick(s)] + it[s \ {Pick(s)}]
  BY <1>1 DEF Pick
<1>4. it[{}] = 0
  BY <1>1
<1>5. SUBSET S \subseteq {s \in SUBSET S : it[s] \in Int}
  <2> DEFINE P == {s \in SUBSET S : it[s] \in Int}
  <2>1. {} \in P
    BY <1>4
  <2>2. ASSUME NEW s \in SUBSET S, s # {}, s \ {Pick(s)} \in P PROVE s \in P
    BY <1>3, <2>2
  <2>3. SUBSET S \subseteq P
    <3> HIDE DEF P
    <3> QED BY <2>1, <2>2, SubsetInduction
  <2> QED BY <2>3
<1>6. it \in [SUBSET S -> Int]
  BY <1>1, <1>5
<1> QED BY <1>2, <1>3, <1>4, <1>6 DEF Sums

\* A sum is a number, and grows with its summands.
LEMMA SumNoLess ==
  ASSUME NEW S, IsFiniteSet(S), NEW f \in [S -> Int], NEW g \in [S -> Int], \A x \in S : f[x] <= g[x]
  PROVE  SumFunction(f) \in Int /\ SumFunction(g) \in Int /\ SumFunction(f) <= SumFunction(g)
<1>1. PICK it : Sums(it, f, S) /\ SumFunction(f) = it[S]
  BY SumDef
<1>2. PICK jt : Sums(jt, g, S) /\ SumFunction(g) = jt[S]
  BY SumDef
<1> DEFINE P == {s \in SUBSET S : it[s] <= jt[s]}
<1>3. {} \in P
  BY <1>1, <1>2 DEF Sums
<1>4. ASSUME NEW s \in SUBSET S, s # {}, s \ {Pick(s)} \in P PROVE s \in P
  <2> DEFINE r == s \ {Pick(s)}
  <2>1. it[s] = f[Pick(s)] + it[r] /\ jt[s] = g[Pick(s)] + jt[r] /\ Pick(s) \in S /\ r \in SUBSET S
    BY <1>1, <1>2, <1>4 DEF Sums
  <2>2. it[r] \in Int /\ jt[r] \in Int /\ it[r] <= jt[r] /\ f[Pick(s)] <= g[Pick(s)]
    BY <1>1, <1>2, <1>4, <2>1 DEF Sums
  <2>3. f[Pick(s)] \in Int /\ g[Pick(s)] \in Int
    BY <2>1
  <2> HIDE DEF r
  <2> QED BY <2>1, <2>2, <2>3
<1>5. SUBSET S \subseteq P
  <2> HIDE DEF P
  <2> QED BY <1>3, <1>4, SubsetInduction
<1>6. S \in SUBSET S /\ S \in P
  BY <1>5
<1> QED BY <1>1, <1>2, <1>6 DEF Sums

LEMMA SumOfEqual ==
  ASSUME NEW S, IsFiniteSet(S), NEW c \in Int
  PROVE  SumFunction([x \in S |-> c]) = c * Cardinality(S)
<1> DEFINE f == [x \in S |-> c]
<1>1. PICK it : Sums(it, f, S) /\ SumFunction(f) = it[S]
  <2>1. f \in [S -> Int]
    OBVIOUS
  <2> HIDE DEF f
  <2> QED BY <2>1, SumDef
<1> DEFINE P == {s \in SUBSET S : it[s] = c * Cardinality(s)}
<1>2. {} \in P
  BY <1>1, FS_EmptySet DEF Sums
<1>3. ASSUME NEW s \in SUBSET S, s # {}, s \ {Pick(s)} \in P PROVE s \in P
  <2> DEFINE r == s \ {Pick(s)}
  <2>1. it[s] = c + it[r] /\ Pick(s) \in s
    BY <1>1, <1>3 DEF Sums
  <2>2. it[r] = c * Cardinality(r) /\ IsFiniteSet(s)
    BY <1>3, FS_Subset
  <2>3. Cardinality(r) = Cardinality(s) - 1 /\ Cardinality(s) \in Nat
    BY <2>1, <2>2, FS_RemoveElement, FS_CardinalityType
  <2> HIDE DEF r
  <2>4. it[s] = c * Cardinality(s)
    BY <2>1, <2>2, <2>3
  <2> QED BY <2>4
<1>4. SUBSET S \subseteq P
  <2> HIDE DEF P
  <2> QED BY <1>2, <1>3, SubsetInduction
<1>5. S \in SUBSET S /\ S \in P
  BY <1>4
<1> QED BY <1>1, <1>5

LEMMA SumOfOnes ==
  ASSUME NEW S, IsFiniteSet(S), NEW c \in {0, 1}
  PROVE  SumFunction([x \in S |-> c]) = c * Cardinality(S)
<1>1. c \in Int
  OBVIOUS
<1> QED BY <1>1, SumOfEqual

\* Any element may be taken away.
LEMMA AnyElement ==
  ASSUME NEW S, IsFiniteSet(S), NEW f \in [S -> Int], NEW it, Sums(it, f, S)
  PROVE  \A s \in SUBSET S : \A y \in s : it[s] = f[y] + it[s \ {y}]
<1> DEFINE P == {s \in SUBSET S : \A y \in s : it[s] = f[y] + it[s \ {y}]}
           N == {n \in Nat : \A s \in SUBSET S : Cardinality(s) = n => s \in P}
<1>1. \A s \in SUBSET S : IsFiniteSet(s) /\ Cardinality(s) \in Nat
  BY FS_Subset, FS_CardinalityType
<1>2. 0 \in N
  BY <1>1, FS_EmptySet
<1>3. ASSUME NEW n \in Nat, n \in N PROVE n + 1 \in N
  <2> SUFFICES ASSUME NEW s \in SUBSET S, Cardinality(s) = n + 1, NEW y \in s
               PROVE  it[s] = f[y] + it[s \ {y}]
    OBVIOUS
  <2> DEFINE p == Pick(s)
  <2>1. p \in s /\ it[s] = f[p] + it[s \ {p}]
    BY DEF Sums
  <2>2. CASE y = p
    BY <2>1, <2>2
  <2>3. CASE y # p
    <3> HIDE DEF p
    <3>1. s \ {p} \in SUBSET S /\ s \ {y} \in SUBSET S /\ y \in s \ {p} /\ p \in s \ {y}
      BY <2>1, <2>3
    <3>2. Cardinality(s \ {p}) = n /\ Cardinality(s \ {y}) = n
      <4>1. IsFiniteSet(s)
        BY <1>1
      <4>2. Cardinality(s \ {p}) = Cardinality(s) - 1 /\ Cardinality(s \ {y}) = Cardinality(s) - 1
        BY <2>1, <4>1, FS_RemoveElement
      <4> QED BY <4>2
    <3>3. s \ {p} \in P /\ s \ {y} \in P
      BY <1>3, <3>1, <3>2
    <3>4. it[s \ {p}] = f[y] + it[(s \ {p}) \ {y}] /\ it[s \ {y}] = f[p] + it[(s \ {y}) \ {p}]
      BY <3>1, <3>3
    <3>5. (s \ {p}) \ {y} = (s \ {y}) \ {p} /\ (s \ {p}) \ {y} \in SUBSET S
      OBVIOUS
    <3>6. it[(s \ {p}) \ {y}] \in Int /\ f[y] \in Int /\ f[p] \in Int
      BY <2>1, <3>5 DEF Sums
    <3> DEFINE r == it[(s \ {p}) \ {y}]
    <3>7. it[s] = f[p] + (f[y] + r) /\ it[s \ {y}] = f[p] + r /\ r \in Int
      BY <2>1, <3>4, <3>5, <3>6
    <3> HIDE DEF r
    <3> QED BY <3>6, <3>7
  <2> QED BY <2>2, <2>3
<1>4. Nat \subseteq N
  <2> HIDE DEF N
  <2> QED BY <1>2, <1>3, Induction
<1> QED BY <1>1, <1>4

\* g is f, of integers over the finite set S, without its value at x.
Without(f, g, S, R, x) ==
  /\ IsFiniteSet(S) /\ f \in [S -> Int] /\ x \in S
  /\ R = S \ {x} /\ g \in [R -> Int] /\ \A y \in R : g[y] = f[y]

\* A sum is one summand and the sum of the others.
LEMMA SumRemove ==
  ASSUME NEW f, NEW g, NEW S, NEW R, NEW x, Without(f, g, S, R, x)
  PROVE  SumFunction(f) = f[x] + SumFunction(g)
<1> /\ IsFiniteSet(S) /\ f \in [S -> Int] /\ x \in S
    /\ R = S \ {x} /\ g \in [R -> Int] /\ \A y \in R : g[y] = f[y]
  BY DEF Without
<1>1. PICK it : Sums(it, f, S) /\ SumFunction(f) = it[S]
  BY SumDef
<1>2. IsFiniteSet(R) /\ g \in [R -> Int]
  BY FS_RemoveElement
<1>3. PICK jt : Sums(jt, g, R) /\ SumFunction(g) = jt[R]
  BY <1>2, SumDef
<1> DEFINE P == {s \in SUBSET R : it[s] = jt[s]}
<1>4. {} \in P
  BY <1>1, <1>3 DEF Sums
<1>5. ASSUME NEW s \in SUBSET R, s # {}, s \ {Pick(s)} \in P PROVE s \in P
  <2>1. it[s] = f[Pick(s)] + it[s \ {Pick(s)}] /\ jt[s] = g[Pick(s)] + jt[s \ {Pick(s)}] /\ Pick(s) \in R
    BY <1>1, <1>3, <1>5 DEF Sums
  <2> QED BY <1>5, <2>1
<1>6. SUBSET R \subseteq P
  <2> HIDE DEF P
  <2> QED BY <1>2, <1>4, <1>5, SubsetInduction
<1>7. it[R] = jt[R]
  BY <1>6
<1>8. it[S] = f[x] + it[R]
  BY <1>1, AnyElement
<1> QED BY <1>1, <1>3, <1>7, <1>8

LEMMA SumScaled ==
  ASSUME NEW S, IsFiniteSet(S), NEW f \in [S -> Int], NEW g \in [S -> Int], \A x \in S : g[x] = 3 * f[x]
  PROVE  SumFunction(f) \in Int /\ SumFunction(g) = 3 * SumFunction(f)
<1>1. PICK it : Sums(it, f, S) /\ SumFunction(f) = it[S]
  BY SumDef
<1>2. PICK jt : Sums(jt, g, S) /\ SumFunction(g) = jt[S]
  BY SumDef
<1> DEFINE P == {s \in SUBSET S : jt[s] = 3 * it[s]}
<1>3. {} \in P
  BY <1>1, <1>2 DEF Sums
<1>4. ASSUME NEW s \in SUBSET S, s # {}, s \ {Pick(s)} \in P PROVE s \in P
  <2> DEFINE r == s \ {Pick(s)}
  <2>1. it[s] = f[Pick(s)] + it[r] /\ jt[s] = g[Pick(s)] + jt[r] /\ Pick(s) \in S /\ r \in SUBSET S
    BY <1>1, <1>2, <1>4 DEF Sums
  <2>2. it[r] \in Int /\ jt[r] = 3 * it[r] /\ g[Pick(s)] = 3 * f[Pick(s)]
    BY <1>1, <1>4, <2>1 DEF Sums
  <2>3. f[Pick(s)] \in Int
    BY <2>1
  <2> HIDE DEF r
  <2> QED BY <2>1, <2>2, <2>3
<1>5. SUBSET S \subseteq P
  <2> HIDE DEF P
  <2> QED BY <1>3, <1>4, SubsetInduction
<1>6. S \in SUBSET S /\ S \in P
  BY <1>5
<1> QED BY <1>1, <1>2, <1>6 DEF Sums

-----------------------------------------------------------------------------
(* The factors of a score.                                                  *)

NumberOrNull == Int \cup {Null}
Inputs == [sentiment : Int, tech : BOOLEAN, rsi : NumberOrNull, ma20 : NumberOrNull, ma50 : NumberOrNull,
           hist : NumberOrNull, change : Int, volume : NumberOrNull, flow : NumberOrNull]
Score  == -Whole .. Whole
Parts(n) == [1 .. n -> BOOLEAN \X Int]

LEMMA UpTo ==
  ASSUME NEW n \in Nat
  PROVE  IsFiniteSet(1 .. n) /\ Cardinality(1 .. n) = n
<1>1. 1 \in Int /\ n \in Int
  OBVIOUS
<1>2. IsFiniteSet(1 .. n) /\ Cardinality(1 .. n) = IF 1 > n THEN 0 ELSE n - 1 + 1
  BY <1>1, FS_Interval
<1> QED BY <1>2

LEMMA ClipNoLess ==
  \A v, w \in Int : Clip(v) \in Score /\ Clip(v) \in Int /\ (v <= w => Clip(v) <= Clip(w)) /\ (v <= 0 => Clip(v) <= 0) /\ (v >= 0 => Clip(v) >= 0)
BY DEF Clip, Clamp, Score, Whole

\* What a mean is made of.
LEMMA MeanParts ==
  ASSUME NEW n \in {2, 4}, NEW p \in Parts(n), Present(p) # {}
  PROVE  /\ IsFiniteSet(Present(p)) /\ Cardinality(Present(p)) \in 1 .. 4
         /\ [i \in Present(p) |-> p[i][2]] \in [Present(p) -> Int]
<1>1. Present(p) \in SUBSET (1 .. n) /\ \A i \in Present(p) : p[i][2] \in Int
  BY DEF Present, Parts
<1>2. IsFiniteSet(1 .. n) /\ Cardinality(1 .. n) = n
  BY UpTo
<1>3. IsFiniteSet(Present(p)) /\ Cardinality(Present(p)) <= n
  BY <1>1, <1>2, FS_Subset
<1>4. Cardinality(Present(p)) \in Nat /\ Cardinality(Present(p)) # 0
  BY <1>3, FS_EmptySet, FS_CardinalityType
<1> QED BY <1>1, <1>3, <1>4

\* A mean of the same parts with greater scores is no less.
LEMMA MeanNoLess ==
  ASSUME NEW n \in {2, 4}, NEW p \in Parts(n), NEW q \in Parts(n),
         \A i \in 1 .. n : p[i][1] = q[i][1] /\ p[i][2] <= q[i][2]
  PROVE  Mean(p) \in Score /\ Mean(q) \in Score /\ Mean(p) <= Mean(q)
<1>1. Present(p) = Present(q)
  BY DEF Present, Parts
<1>2. CASE Present(p) = {}
  BY <1>1, <1>2 DEF Mean, Score, Whole
<1>3. CASE Present(p) # {}
  <2> DEFINE S == Present(p)
             f == [i \in S |-> p[i][2]]
             g == [i \in S |-> q[i][2]]
             k == Cardinality(S)
  <2>1. IsFiniteSet(S) /\ k \in 1 .. 4 /\ f \in [S -> Int] /\ g \in [S -> Int]
    BY <1>1, <1>3, MeanParts
  <2>2. \A i \in S : f[i] <= g[i]
    BY DEF Present, Parts
  <2>3. Mean(p) = Clip(SumFunction(f) \div k) /\ Mean(q) = Clip(SumFunction(g) \div k)
    BY <1>1, <1>3 DEF Mean
  <2> HIDE DEF S, f, g, k
  <2>4. SumFunction(f) \in Int /\ SumFunction(g) \in Int /\ SumFunction(f) <= SumFunction(g)
    BY <2>1, <2>2, SumNoLess
  <2>5. SumFunction(f) \div k \in Int /\ SumFunction(g) \div k \in Int /\ SumFunction(f) \div k <= SumFunction(g) \div k
    BY <2>1, <2>4
  <2> QED BY <2>3, <2>5, ClipNoLess
<1> QED BY <1>2, <1>3

\* A mean is an integer.
LEMMA MeanType ==
  ASSUME NEW p \in Parts(2)
  PROVE  Mean(p) \in Int
<1>1. \A i \in 1 .. 2 : p[i][2] \in Int
  BY DEF Parts
<1>2. Mean(p) \in Score
  BY <1>1, MeanNoLess
<1> QED BY <1>2 DEF Score, Whole

\* A mean has the sign that all its parts have.
LEMMA MeanSign ==
  ASSUME NEW n \in {2, 4}, NEW p \in Parts(n)
  PROVE  /\ (\A i \in 1 .. n : p[i][1] => p[i][2] <= 0) => Mean(p) <= 0
         /\ (\A i \in 1 .. n : p[i][1] => p[i][2] >= 0) => Mean(p) >= 0
<1>1. CASE Present(p) = {}
  BY <1>1 DEF Mean
<1>2. CASE Present(p) # {}
  <2> DEFINE S == Present(p)
             f == [i \in S |-> p[i][2]]
             z == [i \in S |-> 0]
             k == Cardinality(S)
  <2>1. IsFiniteSet(S) /\ k \in 1 .. 4 /\ f \in [S -> Int] /\ z \in [S -> Int]
    BY <1>2, MeanParts
  <2>2. SumFunction(z) = 0
    <3> HIDE DEF S
    <3>1. SumFunction([i \in S |-> 0]) = 0 * k
      BY <2>1, SumOfOnes DEF k
    <3> QED BY <2>1, <3>1
  <2>3. /\ (\A i \in 1 .. n : p[i][1] => p[i][2] <= 0) => \A i \in S : f[i] <= z[i]
        /\ (\A i \in 1 .. n : p[i][1] => p[i][2] >= 0) => \A i \in S : z[i] <= f[i]
    BY DEF Present, Parts
  <2>4. Mean(p) = Clip(SumFunction(f) \div k)
    BY <1>2 DEF Mean
  <2> HIDE DEF S, f, z, k
  <2>5. SumFunction(f) \in Int /\ ((\A i \in S : f[i] <= z[i]) => SumFunction(f) <= 0)
        /\ ((\A i \in S : z[i] <= f[i]) => SumFunction(f) >= 0)
    <3>1. SumFunction(f) \in Int
      BY <2>1, SumNoLess
    <3> QED BY <2>1, <2>2, <3>1, SumNoLess
  <2>6. SumFunction(f) \div k \in Int /\ (SumFunction(f) <= 0 => SumFunction(f) \div k <= 0)
        /\ (SumFunction(f) >= 0 => SumFunction(f) \div k >= 0)
    BY <2>1, <2>5
  <2> QED BY <2>3, <2>4, <2>5, <2>6, ClipNoLess
<1> QED BY <1>1, <1>2

TechParts(i) == <<Given(i.rsi, RSIScore(i)), Given(i.ma20, MAScore(i.ma20, 10)),
                  Given(i.ma50, MAScore(i.ma50, 8)), Given(i.hist, HistScore(i))>>
MomentumParts(i) == << <<i.change # 0, Clip(i.change \div 5)>>, Given(i.volume, VolumeScore(i)) >>

LEMMA PartsType ==
  ASSUME NEW i \in Inputs
  PROVE  TechParts(i) \in Parts(4) /\ MomentumParts(i) \in Parts(2)
<1>1. RSIScore(i) \in Int /\ MAScore(i.ma20, 10) \in Int /\ MAScore(i.ma50, 8) \in Int /\ HistScore(i) \in Int
  BY DEF Inputs, NumberOrNull, RSIScore, MAScore, HistScore, Clip, Clamp, Whole
<1>2. Clip(i.change \div 5) \in Int /\ VolumeScore(i) \in Int
  BY DEF Inputs, NumberOrNull, VolumeScore, Clip, Clamp, Whole
<1>3. \A v, s : s \in Int => Given(v, s) \in BOOLEAN \X Int
  BY DEF Given
<1>4. /\ Given(i.rsi, RSIScore(i)) \in BOOLEAN \X Int /\ Given(i.ma20, MAScore(i.ma20, 10)) \in BOOLEAN \X Int
      /\ Given(i.ma50, MAScore(i.ma50, 8)) \in BOOLEAN \X Int /\ Given(i.hist, HistScore(i)) \in BOOLEAN \X Int
      /\ Given(i.volume, VolumeScore(i)) \in BOOLEAN \X Int
      /\ <<i.change # 0, Clip(i.change \div 5)>> \in BOOLEAN \X Int
  BY <1>1, <1>2, <1>3
<1>5. \A a, b, c, d \in BOOLEAN \X Int : <<a, b, c, d>> \in Parts(4) /\ <<a, b>> \in Parts(2)
  BY DEF Parts
<1> QED BY <1>4, <1>5 DEF TechParts, MomentumParts

\* Scores are integers.
LEMMA ScoreInt == Score \subseteq Int
  BY DEF Score, Whole

LEMMA FactorsDef ==
  ASSUME NEW i \in Inputs
  PROVE  /\ Factors(i) \in [1 .. 4 -> Score]
         /\ Factors(i)[1] = Clip(i.sentiment) /\ Factors(i)[4] = FlowFactor(i)
         /\ Factors(i)[2] = IF ~i.tech /\ i.rsi = Null THEN 0 ELSE Mean(TechParts(i))
         /\ Factors(i)[3] = Mean(MomentumParts(i))
<1>1. Clip(i.sentiment) \in Score /\ FlowFactor(i) \in Score
  BY DEF Inputs, NumberOrNull, FlowFactor, Clip, Clamp, Score, Whole
<1>2. TechnicalFactor(i) \in Score /\ MomentumFactor(i) \in Score
  <2>1. Mean(TechParts(i)) \in Score
    BY PartsType, MeanNoLess DEF Parts
  <2>2. Mean(MomentumParts(i)) \in Score
    BY PartsType, MeanNoLess DEF Parts
  <2>3. /\ TechnicalFactor(i) = IF ~i.tech /\ i.rsi = Null THEN 0 ELSE Mean(TechParts(i))
        /\ MomentumFactor(i) = Mean(MomentumParts(i))
    BY DEF TechnicalFactor, MomentumFactor, TechParts, MomentumParts
  <2>4. 0 \in Score
    BY DEF Score, Whole
  <2> QED BY <2>1, <2>2, <2>3, <2>4
<1>3. \A a, b, c, d \in Score : <<a, b, c, d>> \in [1 .. 4 -> Score]
  OBVIOUS
<1>4. Factors(i) = <<Clip(i.sentiment), TechnicalFactor(i), MomentumFactor(i), FlowFactor(i)>>
  BY DEF Factors
<1> QED BY <1>1, <1>2, <1>3, <1>4 DEF TechnicalFactor, MomentumFactor, TechParts, MomentumParts

-----------------------------------------------------------------------------
(* The score and the signal.                                                *)

Weighted(i) == [n \in 1 .. 4 |-> Weights[n] * Factors(i)[n]]

LEMMA ScoreNoLess ==
  ASSUME NEW i \in Inputs, NEW j \in Inputs, \A n \in 1 .. 4 : Factors(i)[n] <= Factors(j)[n]
  PROVE  CompositeScore(i) \in Int /\ CompositeScore(j) \in Int /\ CompositeScore(i) <= CompositeScore(j)
<1>1. Factors(i) \in [1 .. 4 -> Score] /\ Factors(j) \in [1 .. 4 -> Score]
  BY FactorsDef
<1>2. Weighted(i) \in [1 .. 4 -> Int] /\ Weighted(j) \in [1 .. 4 -> Int] /\ \A n \in 1 .. 4 : Weighted(i)[n] <= Weighted(j)[n]
  <2>1. ASSUME NEW n \in 1 .. 4 PROVE Weights[n] * Factors(i)[n] \in Int /\ Weights[n] * Factors(j)[n] \in Int
                                      /\ Weights[n] * Factors(i)[n] <= Weights[n] * Factors(j)[n]
    <3>1. Factors(i)[n] \in Score /\ Factors(j)[n] \in Score /\ Factors(i)[n] <= Factors(j)[n]
      BY <1>1
    <3>i. Factors(i)[n] \in Int /\ Factors(j)[n] \in Int
      BY <3>1, ScoreInt
    <3>2. Weights[n] = 40 \/ Weights[n] = 30 \/ Weights[n] = 15
      BY DEF Weights
    <3> QED BY <3>1, <3>i, <3>2
  <2> QED BY <2>1 DEF Weighted
<1>3. IsFiniteSet(1 .. 4)
  BY UpTo
<1>4. SumFunction(Weighted(i)) \in Int /\ SumFunction(Weighted(j)) \in Int /\ SumFunction(Weighted(i)) <= SumFunction(Weighted(j))
  BY <1>2, <1>3, SumNoLess
<1>5. /\ CompositeScore(i) = Clamp(SumFunction(Weighted(i)), -100 * Whole, 100 * Whole)
      /\ CompositeScore(j) = Clamp(SumFunction(Weighted(j)), -100 * Whole, 100 * Whole)
  BY DEF CompositeScore, Weighted
<1> QED BY <1>4, <1>5 DEF Clamp, Whole

\* No score without a factor of its sign.
LEMMA ScoreIsBacked ==
  ASSUME NEW i \in Inputs
  PROVE  /\ CompositeScore(i) > 0 => \E n \in 1 .. 4 : Factors(i)[n] > 0
         /\ CompositeScore(i) < 0 => \E n \in 1 .. 4 : Factors(i)[n] < 0
<1> DEFINE z == [n \in 1 .. 4 |-> 0]
<1>1. Factors(i) \in [1 .. 4 -> Score]
  BY FactorsDef
<1>2. IsFiniteSet(1 .. 4) /\ Cardinality(1 .. 4) \in Nat
  <2>1. IsFiniteSet(1 .. 4)
    BY UpTo
  <2> QED BY <2>1, FS_CardinalityType
<1>3. SumFunction(z) = 0
  <2>1. SumFunction(z) = 0 * Cardinality(1 .. 4)
    BY <1>2, SumOfOnes
  <2> QED BY <1>2, <2>1
<1>4. Weighted(i) \in [1 .. 4 -> Int] /\ z \in [1 .. 4 -> Int]
  <2>1. ASSUME NEW n \in 1 .. 4 PROVE Weights[n] * Factors(i)[n] \in Int
    <3>1. Factors(i)[n] \in Int
      BY <1>1, ScoreInt
    <3>2. Weights[n] \in {40, 30, 15}
      BY DEF Weights
    <3> QED BY <3>1, <3>2
  <2> QED BY <2>1 DEF Weighted
<1>5. ASSUME NEW n \in 1 .. 4 PROVE (Factors(i)[n] <= 0 => Weighted(i)[n] <= 0) /\ (Factors(i)[n] >= 0 => Weighted(i)[n] >= 0)
  <2>1. Factors(i)[n] \in Int
    BY <1>1 DEF Score, Whole
  <2>2. Weights[n] = 40 \/ Weights[n] = 30 \/ Weights[n] = 15
    BY DEF Weights
  <2> QED BY <2>1, <2>2 DEF Weighted
<1>6. CompositeScore(i) = Clamp(SumFunction(Weighted(i)), -100 * Whole, 100 * Whole)
  BY DEF CompositeScore, Weighted
<1>7. \A n \in 1 .. 4 : z[n] = 0 /\ Factors(i)[n] \in Int
  BY <1>1 DEF Score, Whole
<1> HIDE DEF z
<1>8. ASSUME \A n \in 1 .. 4 : ~(Factors(i)[n] > 0) PROVE ~(CompositeScore(i) > 0)
  <2>1. \A n \in 1 .. 4 : Weighted(i)[n] <= z[n]
    BY <1>5, <1>7, <1>8
  <2>2. SumFunction(Weighted(i)) \in Int /\ SumFunction(Weighted(i)) <= 0
    BY <1>2, <1>3, <1>4, <2>1, SumNoLess
  <2> QED BY <1>6, <2>2 DEF Clamp, Whole
<1>9. ASSUME \A n \in 1 .. 4 : ~(Factors(i)[n] < 0) PROVE ~(CompositeScore(i) < 0)
  <2>1. \A n \in 1 .. 4 : z[n] <= Weighted(i)[n]
    BY <1>5, <1>7, <1>9
  <2>2. SumFunction(Weighted(i)) \in Int /\ SumFunction(Weighted(i)) >= 0
    BY <1>2, <1>3, <1>4, <2>1, SumNoLess
  <2> QED BY <1>6, <2>2 DEF Clamp, Whole
<1> QED BY <1>8, <1>9

\* A greater score of no less sentiment and no greater RSI gives no lesser signal.
LEMMA RankNoLess ==
  ASSUME NEW i \in Inputs, NEW j \in Inputs, CompositeScore(i) \in Int, CompositeScore(j) \in Int,
         CompositeScore(i) <= CompositeScore(j), i.sentiment <= j.sentiment,
         i.rsi = j.rsi \/ (i.rsi \in Int /\ j.rsi \in Int /\ j.rsi <= i.rsi)
  PROVE  NoWorse(Rated(i), Rated(j))
<1> DEFINE a == CompositeScore(i)
           b == CompositeScore(j)
<1>1. Clip(i.sentiment) \in Int /\ Clip(j.sentiment) \in Int /\ Clip(i.sentiment) <= Clip(j.sentiment)
  <2>1. i.sentiment \in Int /\ j.sentiment \in Int
    BY DEF Inputs
  <2>2. \A v, w \in Int : Clip(v) \in Int /\ (v <= w => Clip(v) <= Clip(w))
    BY ClipNoLess
  <2> QED BY <2>1, <2>2
<1>2. Overbought(j) => Overbought(i)
  BY ScoringAssumption DEF Overbought, Inputs, NumberOrNull
<1>3. (j.rsi # Null /\ j.rsi > 80) => (i.rsi # Null /\ i.rsi > 80)
  BY ScoringAssumption DEF Inputs, NumberOrNull
<1>4. \/ CompositeSignal(i) = "SELL"
      \/ CompositeSignal(i) = "HOLD" /\ CompositeSignal(j) \in {"HOLD", "BUY"}
      \/ CompositeSignal(i) = "BUY" /\ CompositeSignal(j) = "BUY"
  BY <1>1, <1>2, <1>3 DEF CompositeSignal, Whole
<1>5. CompositeSignal(j) \in {"SELL", "HOLD", "BUY"}
  BY DEF CompositeSignal
<1>6. Rank[CompositeSignal(i)] <= Rank[CompositeSignal(j)]
  BY <1>4, <1>5 DEF Rank
<1> QED BY <1>6 DEF NoWorse, Rated

-----------------------------------------------------------------------------
(* Each field in turn.                                                      *)

\* One input is no worse than another in any field.
NoMore(x, y) == x = y \/ (x \in Int /\ y \in Int /\ x <= y)

Dominated(a, b) ==
  /\ a.tech = b.tech /\ a.volume = b.volume /\ a.sentiment <= b.sentiment
  /\ NoMore(a.ma20, b.ma20) /\ NoMore(a.ma50, b.ma50) /\ NoMore(a.hist, b.hist) /\ NoMore(a.flow, b.flow)
  /\ NoMore(b.rsi, a.rsi)
  /\ a.change = b.change \/ (a.volume = Null /\ a.change <= b.change)

LEMMA TechNoLess ==
  ASSUME NEW a \in Inputs, NEW b \in Inputs, Dominated(a, b)
  PROVE  Mean(TechParts(a)) <= Mean(TechParts(b))
<1> USE ScoringAssumption
<1>1. /\ a.rsi \in NumberOrNull /\ b.rsi \in NumberOrNull /\ a.ma20 \in NumberOrNull /\ b.ma20 \in NumberOrNull
      /\ a.ma50 \in NumberOrNull /\ b.ma50 \in NumberOrNull /\ a.hist \in NumberOrNull /\ b.hist \in NumberOrNull
  BY DEF Inputs
<1>2. ((a.rsi # Null) <=> (b.rsi # Null)) /\ RSIScore(a) <= RSIScore(b)
  BY <1>1 DEF Dominated, NoMore, RSIScore, Whole, NumberOrNull
<1>3. ((a.hist # Null) <=> (b.hist # Null)) /\ HistScore(a) <= HistScore(b)
  <2>1. \A v, w \in Int : v <= w => Clip(v \div 5) <= Clip(w \div 5)
    BY ClipNoLess
  <2>2. \A v \in Int : Clip(v \div 5) \in Int
    BY ClipNoLess
  <2> QED BY <1>1, <2>1, <2>2 DEF Dominated, NoMore, HistScore, NumberOrNull
<1>4. ASSUME NEW x \in NumberOrNull, NEW y \in NumberOrNull, NoMore(x, y), NEW k \in {8, 10}
      PROVE  ((x # Null) <=> (y # Null)) /\ MAScore(x, k) <= MAScore(y, k)
  <2>1. \A v, w \in Int : v <= w => Clip(v * k) <= Clip(w * k)
    BY ClipNoLess
  <2>2. \A v \in Int : Clip(v * k) \in Int
    BY ClipNoLess
  <2> QED BY <1>4, <2>1, <2>2 DEF NoMore, MAScore, NumberOrNull
<1>5. /\ ((a.ma20 # Null) <=> (b.ma20 # Null)) /\ MAScore(a.ma20, 10) <= MAScore(b.ma20, 10)
      /\ ((a.ma50 # Null) <=> (b.ma50 # Null)) /\ MAScore(a.ma50, 8) <= MAScore(b.ma50, 8)
  BY <1>1, <1>4 DEF Dominated
<1> DEFINE p == TechParts(a)
           q == TechParts(b)
<1>6. p \in Parts(4) /\ q \in Parts(4)
  BY PartsType
<1>7. \A n \in 1 .. 4 : p[n][1] = q[n][1] /\ p[n][2] <= q[n][2]
  <2>1. /\ p[1] = Given(a.rsi, RSIScore(a)) /\ p[2] = Given(a.ma20, MAScore(a.ma20, 10))
        /\ p[3] = Given(a.ma50, MAScore(a.ma50, 8)) /\ p[4] = Given(a.hist, HistScore(a))
        /\ q[1] = Given(b.rsi, RSIScore(b)) /\ q[2] = Given(b.ma20, MAScore(b.ma20, 10))
        /\ q[3] = Given(b.ma50, MAScore(b.ma50, 8)) /\ q[4] = Given(b.hist, HistScore(b))
    BY DEF TechParts
  <2>2. \A x, s : Given(x, s)[1] = (x # Null) /\ Given(x, s)[2] = s
    BY DEF Given
  <2> HIDE DEF p, q
  <2>3. \A n \in 1 .. 4 : n = 1 \/ n = 2 \/ n = 3 \/ n = 4
    OBVIOUS
  <2> QED BY <1>2, <1>3, <1>5, <2>1, <2>2, <2>3
<1> HIDE DEF p, q
<1>8. Mean(p) <= Mean(q)
  BY <1>6, <1>7, MeanNoLess
<1> QED BY <1>8 DEF p, q

LEMMA MomentumNoLess ==
  ASSUME NEW a \in Inputs, NEW b \in Inputs, Dominated(a, b)
  PROVE  Mean(MomentumParts(a)) <= Mean(MomentumParts(b))
<1> DEFINE p == MomentumParts(a)
           q == MomentumParts(b)
<1>1. p \in Parts(2) /\ q \in Parts(2)
  BY PartsType
<1>2. a.change \in Int /\ b.change \in Int /\ \A v \in Int : Clip(v \div 5) \in Int
  BY ClipNoLess DEF Inputs
<1>3. /\ p[1] = <<a.change # 0, Clip(a.change \div 5)>> /\ p[2] = Given(a.volume, VolumeScore(a))
      /\ q[1] = <<b.change # 0, Clip(b.change \div 5)>> /\ q[2] = Given(b.volume, VolumeScore(b))
  BY DEF MomentumParts
<1>4. Mean(p) \in Int /\ Mean(q) \in Int
  <2> HIDE DEF p, q
  <2> QED BY <1>1, MeanType
<1>5. CASE a.change = b.change
  <2>1. p = q
    BY <1>5 DEF Dominated, MomentumParts, VolumeScore
  <2> QED BY <1>4, <2>1
<1>6. CASE a.volume = Null /\ b.volume = Null /\ a.change < b.change
  <2> DEFINE x == Clip(a.change \div 5)
             y == Clip(b.change \div 5)
  <2>1. /\ x \in Int /\ y \in Int /\ x <= y /\ (a.change <= 0 => x <= 0) /\ (b.change >= 0 => y >= 0)
    <3>1. /\ a.change \div 5 \in Int /\ b.change \div 5 \in Int /\ a.change \div 5 <= b.change \div 5
          /\ (a.change <= 0 => a.change \div 5 <= 0) /\ (b.change >= 0 => b.change \div 5 >= 0)
      BY <1>2, <1>6
    <3> QED BY <3>1, ClipNoLess
  <2>2. /\ p[1][1] = (a.change # 0) /\ p[1][2] = x /\ q[1][1] = (b.change # 0) /\ q[1][2] = y
        /\ p[2][1] = FALSE /\ q[2][1] = FALSE /\ p[2][2] = 0 /\ q[2][2] = 0
    <3>1. VolumeScore(a) = 0 /\ VolumeScore(b) = 0
      BY <1>6 DEF VolumeScore
    <3>2. p[1][1] = (a.change # 0) /\ p[1][2] = x /\ q[1][1] = (b.change # 0) /\ q[1][2] = y
      BY <1>3
    <3>3. p[2] = <<FALSE, 0>> /\ q[2] = <<FALSE, 0>>
      BY <1>3, <1>6, <3>1 DEF Given
    <3>4. p[2][1] = FALSE /\ q[2][1] = FALSE /\ p[2][2] = 0 /\ q[2][2] = 0
      BY <3>3
    <3> QED BY <3>2, <3>4
  <2>3. \A n \in 1 .. 2 : n = 1 \/ n = 2
    OBVIOUS
  <2> HIDE DEF p, q, x, y
  <2>4. CASE a.change # 0 /\ b.change # 0
    <3>1. \A n \in 1 .. 2 : p[n][1] = q[n][1] /\ p[n][2] <= q[n][2]
      <4>1. p[1][1] = q[1][1] /\ p[2][1] = q[2][1]
        BY <2>2, <2>4
      <4> QED BY <2>1, <2>2, <2>3, <4>1
    <3>2. Mean(p) <= Mean(q)
      BY <1>1, <3>1, MeanNoLess
    <3> QED BY <3>2 DEF p, q
  <2>5. CASE a.change <= 0 /\ b.change >= 0
    <3>1. Mean(p) <= 0
      <4>1. \A n \in 1 .. 2 : p[n][1] => p[n][2] <= 0
        BY <2>1, <2>2, <2>3, <2>5
      <4> QED BY <1>1, <4>1, MeanSign
    <3>2. Mean(q) >= 0
      <4>1. \A n \in 1 .. 2 : q[n][1] => q[n][2] >= 0
        BY <2>1, <2>2, <2>3, <2>5
      <4> QED BY <1>1, <4>1, MeanSign
    <3>3. Mean(p) <= Mean(q)
      BY <1>4, <3>1, <3>2
    <3> QED BY <3>3 DEF p, q
  <2> QED BY <1>2, <1>6, <2>4, <2>5
<1> QED BY <1>2, <1>5, <1>6 DEF Dominated

\* Whatever gets no worse in an input, its rating gets no worse.
LEMMA DominatedIsNoBetter ==
  ASSUME NEW a \in Inputs, NEW b \in Inputs, Dominated(a, b)
  PROVE  NoWorse(Rated(a), Rated(b))
<1>1. \A n \in 1 .. 4 : Factors(a)[n] <= Factors(b)[n]
  <2>1. Clip(a.sentiment) <= Clip(b.sentiment)
    <3>1. a.sentiment \in Int /\ b.sentiment \in Int /\ a.sentiment <= b.sentiment
      BY DEF Inputs, Dominated
    <3> QED BY <3>1, ClipNoLess
  <2>2. FlowFactor(a) <= FlowFactor(b)
    <3>1. a.flow \in NumberOrNull /\ b.flow \in NumberOrNull /\ NoMore(a.flow, b.flow)
      BY DEF Inputs, Dominated
    <3>2. \A v, w \in Int : Clip(v) \in Int /\ (v <= w => Clip(v) <= Clip(w))
      BY ClipNoLess
    <3> QED BY <3>1, <3>2, ScoringAssumption DEF FlowFactor, NoMore, NumberOrNull
  <2>3. (~a.tech /\ a.rsi = Null) <=> (~b.tech /\ b.rsi = Null)
    BY ScoringAssumption DEF Inputs, Dominated, NoMore, NumberOrNull
  <2>4. \A n \in 1 .. 4 : n = 1 \/ n = 2 \/ n = 3 \/ n = 4
    OBVIOUS
  <2> QED BY <2>1, <2>2, <2>3, <2>4, TechNoLess, MomentumNoLess, FactorsDef
<1>2. CompositeScore(a) \in Int /\ CompositeScore(b) \in Int /\ CompositeScore(a) <= CompositeScore(b)
  BY <1>1, ScoreNoLess
<1>3. a.sentiment <= b.sentiment /\ (a.rsi = b.rsi \/ (a.rsi \in Int /\ b.rsi \in Int /\ b.rsi <= a.rsi))
  BY DEF Dominated, NoMore
<1> QED BY <1>2, <1>3, RankNoLess

-----------------------------------------------------------------------------
(* Products and quotients.                                                  *)

LEMMA MulNoLess ==
  ASSUME NEW x \in Int, NEW y \in Int, x <= y, NEW k \in Nat
  PROVE  x * k \in Int /\ y * k \in Int /\ x * k <= y * k
OBVIOUS

LEMMA DivNoLess ==
  ASSUME NEW x \in Int, NEW y \in Int, x <= y, NEW k \in Nat \ {0}
  PROVE  x \div k \in Int /\ y \div k \in Int /\ x \div k <= y \div k
OBVIOUS

LEMMA DivBounds ==
  ASSUME NEW x \in Int, NEW k \in Nat \ {0}
  PROVE  /\ x \div k \in Int
         /\ x >= 0 => x \div k >= 0
         /\ x >= k => x \div k >= 1
OBVIOUS

-----------------------------------------------------------------------------
(* Totals and averages of a series.                                         *)

LEMMA TotalNoLess ==
  ASSUME NEW s \in Seq(Int), NEW t \in Seq(Int), Len(s) = Len(t), \A i \in 1 .. Len(s) : s[i] <= t[i]
  PROVE  Total(s) \in Int /\ Total(t) \in Int /\ Total(s) <= Total(t)
<1>1. Len(s) \in Nat /\ s \in [1 .. Len(s) -> Int] /\ t \in [1 .. Len(s) -> Int]
  OBVIOUS
<1>2. IsFiniteSet(1 .. Len(s))
  BY <1>1, UpTo
<1> QED BY <1>1, <1>2, SumNoLess DEF Total

LEMMA TotalBounds ==
  ASSUME NEW s \in Seq(Int)
  PROVE  /\ Total(s) \in Int
         /\ (\A i \in 1 .. Len(s) : s[i] >= 0) => Total(s) >= 0
         /\ (\A i \in 1 .. Len(s) : s[i] >= 1) => Total(s) >= Len(s)
<1> DEFINE n == Len(s)
           z == [i \in 1 .. n |-> 0]
           u == [i \in 1 .. n |-> 1]
<1>1. n \in Nat /\ z \in Seq(Int) /\ u \in Seq(Int) /\ Len(z) = n /\ Len(u) = n
  OBVIOUS
<1>2. IsFiniteSet(1 .. n) /\ Cardinality(1 .. n) = n
  BY <1>1, UpTo
<1>3. Total(z) = 0 /\ Total(u) = n
  <2>1. SumFunction(z) = 0 * Cardinality(1 .. n) /\ SumFunction(u) = 1 * Cardinality(1 .. n)
    BY <1>2, SumOfOnes
  <2> QED BY <1>1, <1>2, <2>1 DEF Total
<1>4. \A i \in 1 .. n : z[i] = 0 /\ u[i] = 1 /\ s[i] \in Int
  OBVIOUS
<1> HIDE DEF z, u
<1>5. Total(s) \in Int
  BY TotalNoLess
<1>6. ASSUME \A i \in 1 .. n : s[i] >= 0 PROVE Total(s) >= 0
  <2>1. \A i \in 1 .. Len(z) : z[i] <= s[i]
    BY <1>1, <1>4, <1>6
  <2> QED BY <1>1, <1>3, <2>1, TotalNoLess
<1>7. ASSUME \A i \in 1 .. n : s[i] >= 1 PROVE Total(s) >= n
  <2>1. \A i \in 1 .. Len(u) : u[i] <= s[i]
    BY <1>1, <1>4, <1>7
  <2> QED BY <1>1, <1>3, <2>1, TotalNoLess
<1> QED BY <1>5, <1>6, <1>7

LEMMA Piece ==
  ASSUME NEW V, NEW s \in Seq(V), NEW m \in Nat \ {0}, NEW n \in Nat, n <= Len(s)
  PROVE  /\ SubSeq(s, m, n) \in Seq(V) /\ Len(SubSeq(s, m, n)) = IF m <= n THEN n - m + 1 ELSE 0
         /\ \A i \in 1 .. n - m + 1 : SubSeq(s, m, n)[i] = s[m + i - 1] /\ m + i - 1 \in 1 .. Len(s)
BY SubSeqProperties

\* The first values of a sequence.
LEMMA FirstPiece ==
  ASSUME NEW s \in Seq(Int), NEW n \in Nat \ {0}, n <= Len(s)
  PROVE  /\ SubSeq(s, 1, n) \in Seq(Int) /\ Len(SubSeq(s, 1, n)) = n
         /\ \A i \in 1 .. n : SubSeq(s, 1, n)[i] = s[i]
<1> DEFINE p == SubSeq(s, 1, n)
<1>1. n \in Nat /\ 1 <= n /\ n - 1 + 1 = n /\ 1 \in Nat \ {0} /\ \A i \in 1 .. n : 1 + i - 1 = i
  OBVIOUS
<1>2. /\ p \in Seq(Int) /\ Len(p) = IF 1 <= n THEN n - 1 + 1 ELSE 0
      /\ \A i \in 1 .. n - 1 + 1 : p[i] = s[1 + i - 1]
  BY <1>1, Piece
<1> HIDE DEF p
<1>3. p \in Seq(Int) /\ Len(p) = n /\ \A i \in 1 .. n : p[i] = s[i]
  BY <1>1, <1>2
<1> QED BY <1>3 DEF p

LEMMA SMAType ==
  ASSUME NEW s \in Seq(Int), NEW period \in Nat \ {0}, period <= Len(s)
  PROVE  CalcSMA(s, period) \in Int
<1> DEFINE m == Len(s) - period + 1
           p == SubSeq(s, m, Len(s))
           x == Total(p)
<1>1. m \in Nat \ {0} /\ Len(s) \in Nat
  OBVIOUS
<1>2. p \in Seq(Int)
  <2> HIDE DEF m
  <2> QED BY <1>1, Piece
<1> HIDE DEF p
<1>3. x \in Int
  BY <1>2, TotalBounds
<1> HIDE DEF x
<1>4. x \div period \in Int
  BY <1>3, DivBounds
<1> QED BY <1>4 DEF CalcSMA, p, x

-----------------------------------------------------------------------------
(* Running averages.                                                        *)

\* A series each of whose values is made of the one before and of its place.
Runs(w, lo, hi, a, h) == w = [i \in lo .. hi |-> IF i = lo THEN a ELSE h[<<i, w[i - 1]>>]]

LEMMA RunExists ==
  ASSUME NEW lo \in Nat, NEW hi \in Nat, NEW V, NEW a \in V, NEW h \in [Nat \X V -> V]
  PROVE  \E w \in [lo .. hi -> V] : Runs(w, lo, hi, a, h)
<1> DEFINE k == [p \in Nat \X V |-> h[<<lo + p[1] + 1, p[2]>>]]
<1>1. k \in [Nat \X V -> V]
  <2>1. ASSUME NEW p \in Nat \X V PROVE h[<<lo + p[1] + 1, p[2]>>] \in V
    OBVIOUS
  <2> QED BY <2>1
<1>2. PICK g : Recursive(g, V, a, k)
  <2> HIDE DEF k
  <2> QED BY <1>1, Recursion
<1>3. g \in [Nat -> V] /\ g[0] = a /\ \A n \in Nat : g[n + 1] = h[<<lo + n + 1, g[n]>>]
  BY <1>2 DEF Recursive
<1> DEFINE w == [i \in lo .. hi |-> g[i - lo]]
<1>4. w = [i \in lo .. hi |-> IF i = lo THEN a ELSE h[<<i, w[i - 1]>>]]
  <2> SUFFICES ASSUME NEW i \in lo .. hi PROVE g[i - lo] = IF i = lo THEN a ELSE h[<<i, w[i - 1]>>]
    OBVIOUS
  <2>1. CASE i = lo
    BY <1>3, <2>1
  <2>2. CASE i # lo
    <3> DEFINE n == i - lo - 1
    <3>1. n \in Nat /\ n + 1 = i - lo /\ lo + n + 1 = i /\ (i - 1) - lo = n /\ i - 1 \in lo .. hi
      BY <2>2
    <3>2. w[i - 1] = g[n]
      BY <3>1
    <3>3. g[n + 1] = h[<<lo + n + 1, g[n]>>]
      BY <1>3, <3>1
    <3> HIDE DEF n, w
    <3> QED BY <2>2, <3>1, <3>2, <3>3
  <2> QED BY <2>1, <2>2
<1>5. w \in [lo .. hi -> V]
  <2>1. \A i \in lo .. hi : i - lo \in Nat
    OBVIOUS
  <2> QED BY <1>3, <2>1
<1> QED BY <1>4, <1>5 DEF Runs

\* The members of a set of indices that holds the first and with each the next.
LEMMA IndexInduction ==
  ASSUME NEW lo \in Nat, NEW hi \in Nat, NEW P, lo \in P, \A i \in lo + 1 .. hi : i - 1 \in P => i \in P
  PROVE  lo .. hi \subseteq P
<1> DEFINE N == {n \in Nat : lo + n <= hi => lo + n \in P}
<1>1. 0 \in N
  OBVIOUS
<1>2. ASSUME NEW n \in Nat, n \in N PROVE n + 1 \in N
  <2>1. CASE lo + (n + 1) <= hi
    <3>1. lo + (n + 1) \in lo + 1 .. hi /\ (lo + (n + 1)) - 1 = lo + n /\ lo + n \in P
      BY <1>2, <2>1
    <3> QED BY <3>1
  <2> QED BY <2>1
<1>3. Nat \subseteq N
  <2> HIDE DEF N
  <2> QED BY <1>1, <1>2, Induction
<1>4. ASSUME NEW i \in lo .. hi PROVE i \in P
  <2>1. i - lo \in Nat /\ lo + (i - lo) = i
    OBVIOUS
  <2>2. i - lo \in N
    BY <1>3, <2>1
  <2> QED BY <2>1, <2>2
<1> QED BY <1>4

EMARule(ema, s, period) ==
  ema = [i \in period .. Len(s) |-> IF i = period THEN Seed(s, period)
                                    ELSE ema[i - 1] + ((s[i] - ema[i - 1]) * 2) \div (period + 1)]

LEMMA SeedBounds ==
  ASSUME NEW s \in Seq(Int), NEW period \in Nat \ {0}, period <= Len(s)
  PROVE  /\ Seed(s, period) \in Int
         /\ (\A i \in 1 .. Len(s) : s[i] >= 0) => Seed(s, period) >= 0
<1> DEFINE p == SubSeq(s, 1, period)
           x == Total(p)
<1>1. p \in Seq(Int) /\ Len(p) = period /\ \A i \in 1 .. period : p[i] = s[i]
  BY FirstPiece
<1>2. x \in Int /\ ((\A i \in 1 .. Len(s) : s[i] >= 0) => x >= 0)
  <2> HIDE DEF p
  <2>1. (\A i \in 1 .. Len(s) : s[i] >= 0) => (\A i \in 1 .. Len(p) : p[i] >= 0)
    BY <1>1
  <2> QED BY <1>1, <2>1, TotalBounds
<1> HIDE DEF x
<1>3. x \div period \in Int /\ (x >= 0 => x \div period >= 0)
  BY <1>2, DivBounds
<1> QED BY <1>2, <1>3 DEF Seed, x

LEMMA EMADef ==
  ASSUME NEW s \in Seq(Int), NEW period \in Nat \ {0}, period <= Len(s)
  PROVE  EMARule(EMA(s, period), s, period) /\ EMA(s, period) \in [period .. Len(s) -> Int]
<1> DEFINE n == Len(s)
           a == Seed(s, period)
           h == [p \in Nat \X Int |-> IF p[1] \in 1 .. n THEN p[2] + ((s[p[1]] - p[2]) * 2) \div (period + 1) ELSE 0]
<1>1. a \in Int /\ n \in Nat /\ \A i \in 1 .. n : s[i] \in Int
  BY SeedBounds
<1>2. \A i \in 1 .. n : \A x \in Int : x + ((s[i] - x) * 2) \div (period + 1) \in Int
  <2> SUFFICES ASSUME NEW i \in 1 .. n, NEW x \in Int PROVE x + ((s[i] - x) * 2) \div (period + 1) \in Int
    OBVIOUS
  <2> DEFINE y == (s[i] - x) * 2
  <2>1. y \in Int /\ period + 1 \in Nat \ {0}
    BY <1>1
  <2> HIDE DEF y
  <2>2. y \div (period + 1) \in Int
    BY <2>1, DivBounds
  <2> QED BY <2>2 DEF y
<1> HIDE DEF a
<1>3. h \in [Nat \X Int -> Int]
  <2> DEFINE next(i, x) == x + ((s[i] - x) * 2) \div (period + 1)
  <2>1. \A i \in 1 .. n : \A x \in Int : next(i, x) \in Int
    BY <1>2
  <2>2. h = [p \in Nat \X Int |-> IF p[1] \in 1 .. n THEN next(p[1], p[2]) ELSE 0]
    OBVIOUS
  <2> HIDE DEF next, h
  <2>3. \A p \in Nat \X Int : (IF p[1] \in 1 .. n THEN next(p[1], p[2]) ELSE 0) \in Int
    BY <2>1
  <2> QED BY <2>2, <2>3
<1>4. \A i \in 1 .. n : \A x \in Int : h[<<i, x>>] = x + ((s[i] - x) * 2) \div (period + 1)
  <2> DEFINE next(i, x) == x + ((s[i] - x) * 2) \div (period + 1)
  <2>1. h = [p \in Nat \X Int |-> IF p[1] \in 1 .. n THEN next(p[1], p[2]) ELSE 0]
    OBVIOUS
  <2> HIDE DEF next, h
  <2>2. ASSUME NEW i \in 1 .. n, NEW x \in Int PROVE h[<<i, x>>] = next(i, x)
    <3>1. <<i, x>> \in Nat \X Int /\ <<i, x>>[1] = i /\ <<i, x>>[2] = x
      OBVIOUS
    <3> QED BY <2>1, <3>1
  <2> QED BY <2>2 DEF next
<1> HIDE DEF h
<1>5. PICK w \in [period .. n -> Int] : Runs(w, period, n, a, h)
  BY <1>1, <1>3, RunExists
<1>6. EMARule(w, s, period)
  <2>1. \A i \in period .. n : i # period => w[i - 1] \in Int /\ i \in 1 .. n
    <3>1. ASSUME NEW i \in period .. n, i # period PROVE i - 1 \in period .. n /\ i \in 1 .. n
      BY <1>1, <3>1
    <3> QED BY <1>5, <3>1
  <2> QED BY <1>4, <1>5, <2>1 DEF Runs, EMARule, a
<1> DEFINE e == CHOOSE ema : EMARule(ema, s, period)
<1>7. EMARule(e, s, period)
  BY <1>6
<1>8. EMA(s, period) = e
  BY DEF EMA, EMARule
<1> HIDE DEF e
<1> DEFINE P == {i \in period .. n : e[i] \in Int}
<1>9. period \in P
  BY <1>1, <1>7 DEF EMARule, a
<1>10. ASSUME NEW i \in period + 1 .. n, i - 1 \in P PROVE i \in P
  <2>1. e[i] = e[i - 1] + ((s[i] - e[i - 1]) * 2) \div (period + 1) /\ i \in 1 .. n /\ i \in period .. n
    <3>1. i \in 1 .. n /\ i \in period .. n /\ i # period
      BY <1>1
    <3> QED BY <1>7, <3>1 DEF EMARule
  <2>2. e[i] \in Int
    BY <1>2, <1>10, <2>1
  <2> QED BY <2>1, <2>2
<1>11. e \in [period .. n -> Int]
  <2>1. period .. n \subseteq P
    <3> HIDE DEF P
    <3> QED BY <1>1, <1>9, <1>10, IndexInduction
  <2>2. e = [i \in period .. n |-> e[i]]
    BY <1>7 DEF EMARule
  <2> QED BY <2>1, <2>2
<1> QED BY <1>7, <1>8, <1>11

LEMMA EMAType ==
  ASSUME NEW s \in Seq(Int), NEW period \in Nat \ {0}, period <= Len(s)
  PROVE  CalcEMA(s, period) \in Int
<1>1. Len(s) \in period .. Len(s)
  OBVIOUS
<1> QED BY <1>1, EMADef DEF CalcEMA

\* Wilder's smoothing, and how it follows the values it is made of.
SmoothRule(avg, v) ==
  avg = [i \in RSIPeriod .. Len(v) |-> IF i = RSIPeriod THEN Seed(v, RSIPeriod)
                                       ELSE (avg[i - 1] * (RSIPeriod - 1) + v[i]) \div RSIPeriod]

LEMMA SmoothedDef ==
  ASSUME NEW v \in Seq(Int), RSIPeriod <= Len(v)
  PROVE  SmoothRule(Averages(v), v) /\ Averages(v) \in [RSIPeriod .. Len(v) -> Int]
<1> DEFINE n == Len(v)
           P == RSIPeriod
           a == Seed(v, P)
           next(i, x) == (x * (P - 1) + v[i]) \div P
           h == [p \in Nat \X Int |-> IF p[1] \in 1 .. n THEN next(p[1], p[2]) ELSE 0]
<1>0. P \in Nat \ {0} /\ P <= n
  BY IndicatorAssumption
<1>1. a \in Int /\ n \in Nat /\ \A i \in 1 .. n : v[i] \in Int
  BY <1>0, SeedBounds
<1> HIDE DEF P, a
<1>2. \A i \in 1 .. n : \A x \in Int : next(i, x) \in Int
  <2> SUFFICES ASSUME NEW i \in 1 .. n, NEW x \in Int PROVE next(i, x) \in Int
    OBVIOUS
  <2> DEFINE y == x * (P - 1) + v[i]
  <2>1. y \in Int
    BY <1>0, <1>1
  <2> HIDE DEF y
  <2>2. y \div P \in Int
    BY <1>0, <2>1, DivBounds
  <2> QED BY <2>2 DEF y
<1> HIDE DEF next
<1>3. h \in [Nat \X Int -> Int]
  <2>1. \A p \in Nat \X Int : (IF p[1] \in 1 .. n THEN next(p[1], p[2]) ELSE 0) \in Int
    BY <1>2
  <2> QED BY <2>1
<1>4. \A i \in 1 .. n : \A x \in Int : h[<<i, x>>] = next(i, x)
  OBVIOUS
<1> HIDE DEF h
<1>5. PICK w \in [P .. n -> Int] : Runs(w, P, n, a, h)
  BY <1>0, <1>1, <1>3, RunExists
<1>6. SmoothRule(w, v)
  <2>1. \A i \in P .. n : i # P => w[i - 1] \in Int /\ i \in 1 .. n
    <3>1. ASSUME NEW i \in P .. n, i # P PROVE i - 1 \in P .. n /\ i \in 1 .. n
      BY <1>0, <1>1, <3>1
    <3> QED BY <1>5, <3>1
  <2>2. \A i \in P .. n : (IF i = P THEN a ELSE h[<<i, w[i - 1]>>]) = IF i = P THEN a ELSE next(i, w[i - 1])
    BY <1>4, <2>1
  <2>3. w = [i \in P .. n |-> IF i = P THEN a ELSE next(i, w[i - 1])]
    BY <1>5, <2>2 DEF Runs
  <2> QED BY <2>3 DEF SmoothRule, P, a, next
<1> DEFINE e == CHOOSE avg : SmoothRule(avg, v)
<1>7. SmoothRule(e, v)
  BY <1>6
<1>8. Averages(v) = e
  BY DEF Averages, SmoothRule
<1> HIDE DEF e
<1> DEFINE Q == {i \in P .. n : e[i] \in Int}
<1>9. P \in Q
  BY <1>0, <1>1, <1>7 DEF SmoothRule, a, P
<1>10. ASSUME NEW i \in P + 1 .. n, i - 1 \in Q PROVE i \in Q
  <2>1. e[i] = next(i, e[i - 1]) /\ i \in 1 .. n /\ i \in P .. n
    <3>1. i \in 1 .. n /\ i \in P .. n /\ i # P
      BY <1>0, <1>1
    <3> QED BY <1>7, <3>1 DEF SmoothRule, P, next
  <2> QED BY <1>2, <1>10, <2>1
<1>11. P .. n \subseteq Q
  <2> HIDE DEF Q
  <2> QED BY <1>0, <1>1, <1>9, <1>10, IndexInduction
<1>12. e \in [P .. n -> Int]
  <2>1. \A i \in P .. n : e[i] \in Int
    BY <1>11
  <2>2. e = [i \in P .. n |-> e[i]]
    BY <1>7 DEF SmoothRule, P
  <2> QED BY <2>1, <2>2
<1> QED BY <1>7, <1>8, <1>12 DEF P

LEMMA SeedNoLess ==
  ASSUME NEW s \in Seq(Int), NEW t \in Seq(Int), Len(s) = Len(t), NEW period \in Nat \ {0}, period <= Len(s),
         \A i \in 1 .. Len(s) : s[i] <= t[i]
  PROVE  Seed(s, period) <= Seed(t, period)
<1> DEFINE p == SubSeq(s, 1, period)
           q == SubSeq(t, 1, period)
           x == Total(p)
           y == Total(q)
<1>1. /\ p \in Seq(Int) /\ Len(p) = period /\ \A i \in 1 .. period : p[i] = s[i]
      /\ q \in Seq(Int) /\ Len(q) = period /\ \A i \in 1 .. period : q[i] = t[i]
  <2>1. p \in Seq(Int) /\ Len(p) = period /\ \A i \in 1 .. period : p[i] = s[i]
    BY FirstPiece
  <2>2. period <= Len(t)
    OBVIOUS
  <2>3. q \in Seq(Int) /\ Len(q) = period /\ \A i \in 1 .. period : q[i] = t[i]
    BY <2>2, FirstPiece
  <2> QED BY <2>1, <2>3
<1> HIDE DEF p, q
<1>2. x \in Int /\ y \in Int /\ x <= y
  <2>1. \A i \in 1 .. Len(p) : p[i] <= q[i]
    <3>1. \A i \in 1 .. period : i \in 1 .. Len(s)
      OBVIOUS
    <3> QED BY <1>1, <3>1
  <2> QED BY <1>1, <2>1, TotalNoLess
<1> HIDE DEF x, y
<1>3. x \div period <= y \div period
  BY <1>2, DivNoLess
<1> QED BY <1>3 DEF Seed, x, y, p, q

\* Greater values have no lesser mean.
LEMMA SmoothedNoLess ==
  ASSUME NEW v \in Seq(Int), NEW u \in Seq(Int), Len(v) = Len(u), RSIPeriod <= Len(v),
         \A i \in 1 .. Len(v) : v[i] <= u[i]
  PROVE  Smoothed(v) \in Int /\ Smoothed(u) \in Int /\ Smoothed(v) <= Smoothed(u)
<1> DEFINE n == Len(v)
           P == RSIPeriod
<1>0. P \in Nat \ {0} /\ P <= n /\ n \in Nat
  BY IndicatorAssumption
<1> DEFINE d == Averages(v)
<1>1. SmoothRule(d, v) /\ Smoothed(v) = d[n] /\ d \in [P .. n -> Int]
  BY SmoothedDef DEF Smoothed
<1> HIDE DEF d
<1> DEFINE e == Averages(u)
<1>2. SmoothRule(e, u) /\ Smoothed(u) = e[n] /\ e \in [P .. n -> Int]
  BY SmoothedDef DEF Smoothed
<1> HIDE DEF e
<1> DEFINE Q == {i \in P .. n : d[i] <= e[i]}
<1>3. P \in Q
  <2>1. d[P] = Seed(v, P) /\ e[P] = Seed(u, P)
    BY <1>0, <1>1, <1>2 DEF SmoothRule
  <2>2. Seed(v, P) <= Seed(u, P)
    BY <1>0, SeedNoLess
  <2> QED BY <1>0, <2>1, <2>2
<1>4. ASSUME NEW i \in P + 1 .. n, i - 1 \in Q PROVE i \in Q
  <2> DEFINE a == d[i - 1]
             b == e[i - 1]
             x == a * (P - 1) + v[i]
             y == b * (P - 1) + u[i]
  <2>1. i \in 1 .. n /\ i \in P .. n /\ i # P
    BY <1>0
  <2>2. d[i] = x \div P /\ e[i] = y \div P
    BY <1>1, <1>2, <2>1 DEF SmoothRule
  <2>3. a \in Int /\ b \in Int /\ a <= b /\ v[i] \in Int /\ u[i] \in Int /\ v[i] <= u[i]
    <3>1. a \in Int /\ b \in Int /\ a <= b
      BY <1>1, <1>2, <1>4
    <3>2. v[i] \in Int /\ u[i] \in Int /\ v[i] <= u[i]
      BY <2>1
    <3> QED BY <3>1, <3>2
  <2> HIDE DEF a, b, P
  <2>4. x \in Int /\ y \in Int /\ x <= y
    <3>1. P - 1 \in Nat
      BY <1>0
    <3>2. a * (P - 1) \in Int /\ b * (P - 1) \in Int /\ a * (P - 1) <= b * (P - 1)
      BY <2>3, <3>1, MulNoLess
    <3>3. \A j, k, l, m \in Int : j <= k /\ l <= m => j + l \in Int /\ k + m \in Int /\ j + l <= k + m
      OBVIOUS
    <3> QED BY <2>3, <3>2, <3>3
  <2> HIDE DEF x, y
  <2>5. x \div P <= y \div P
    BY <1>0, <2>4, DivNoLess
  <2> QED BY <2>1, <2>2, <2>5
<1>5. P .. n \subseteq Q
  <2> HIDE DEF Q, P
  <2> QED BY <1>0, <1>3, <1>4, IndexInduction
<1> QED BY <1>0, <1>1, <1>2, <1>5

\* Nor is that of values none of which is negative.
LEMMA SmoothedNat ==
  ASSUME NEW v \in Seq(Int), RSIPeriod <= Len(v), \A i \in 1 .. Len(v) : v[i] >= 0
  PROVE  Smoothed(v) \in Nat
<1> DEFINE n == Len(v)
           P == RSIPeriod
<1>0. P \in Nat \ {0} /\ P <= n /\ n \in Nat
  BY IndicatorAssumption
<1> DEFINE d == Averages(v)
<1>1. SmoothRule(d, v) /\ Smoothed(v) = d[n] /\ d \in [P .. n -> Int]
  BY SmoothedDef DEF Smoothed
<1> HIDE DEF d
<1> DEFINE Q == {i \in P .. n : d[i] >= 0}
<1>2. P \in Q
  <2>1. d[P] = Seed(v, P)
    BY <1>0, <1>1 DEF SmoothRule
  <2>2. Seed(v, P) >= 0
    BY <1>0, SeedBounds
  <2> QED BY <1>0, <2>1, <2>2
<1>3. ASSUME NEW i \in P + 1 .. n, i - 1 \in Q PROVE i \in Q
  <2> DEFINE a == d[i - 1]
             x == a * (P - 1) + v[i]
  <2>1. i \in 1 .. n /\ i \in P .. n /\ i # P
    BY <1>0
  <2>2. d[i] = x \div P
    BY <1>1, <2>1 DEF SmoothRule
  <2>3. a \in Int /\ a >= 0 /\ v[i] \in Int /\ v[i] >= 0
    <3>1. i - 1 \in P .. n /\ a >= 0
      BY <1>3
    <3>2. a \in Int
      BY <1>1, <3>1
    <3>3. v[i] \in Int /\ v[i] >= 0
      BY <2>1
    <3> QED BY <3>1, <3>2, <3>3
  <2> HIDE DEF a, P
  <2>4. x \in Int /\ x >= 0
    <3>1. P - 1 \in Nat /\ 0 * (P - 1) = 0
      BY <1>0
    <3>2. a * (P - 1) \in Int /\ a * (P - 1) >= 0
      BY <2>3, <3>1, MulNoLess
    <3> QED BY <2>3, <3>2
  <2> HIDE DEF x
  <2>5. x \div P >= 0
    BY <1>0, <2>4, DivBounds
  <2> QED BY <2>1, <2>2, <2>5
<1>4. P .. n \subseteq Q
  <2> HIDE DEF Q, P
  <2> QED BY <1>0, <1>2, <1>3, IndexInduction
<1>5. n \in P .. n
  BY <1>0
<1>6. d[n] \in Int /\ d[n] >= 0
  BY <1>1, <1>4, <1>5
<1> QED BY <1>1, <1>6

\* The mean of zeros is zero.
LEMMA SeedOfZeros ==
  ASSUME NEW s \in Seq(Int), NEW period \in Nat \ {0}, period <= Len(s), \A i \in 1 .. Len(s) : s[i] = 0
  PROVE  Seed(s, period) = 0
<1> DEFINE p == SubSeq(s, 1, period)
           z == [i \in 1 .. period |-> 0]
<1>1. p \in Seq(Int) /\ Len(p) = period /\ \A i \in 1 .. period : p[i] = s[i] /\ s[i] = 0
  BY FirstPiece
<1> HIDE DEF p
<1>2. p = z
  BY <1>1
<1>3. SumFunction(z) = 0
  <2>1. IsFiniteSet(1 .. period) /\ Cardinality(1 .. period) \in Nat
    BY UpTo
  <2>2. SumFunction(z) = 0 * Cardinality(1 .. period)
    BY <2>1, SumOfOnes
  <2> QED BY <2>1, <2>2
<1>4. 0 \div period = 0
  OBVIOUS
<1> QED BY <1>2, <1>3, <1>4 DEF Seed, Total, p

LEMMA SmoothedOfZeros ==
  ASSUME NEW v \in Seq(Int), RSIPeriod <= Len(v), \A i \in 1 .. Len(v) : v[i] = 0
  PROVE  Smoothed(v) = 0
<1> DEFINE n == Len(v)
           P == RSIPeriod
<1>0. P \in Nat \ {0} /\ P <= n /\ n \in Nat
  BY IndicatorAssumption
<1> DEFINE d == Averages(v)
<1>1. SmoothRule(d, v) /\ Smoothed(v) = d[n]
  BY SmoothedDef DEF Smoothed
<1> HIDE DEF d
<1> DEFINE Q == {i \in P .. n : d[i] = 0}
<1>2. P \in Q
  <2>1. d[P] = Seed(v, P)
    BY <1>0, <1>1 DEF SmoothRule
  <2>2. Seed(v, P) = 0
    BY <1>0, SeedOfZeros
  <2> QED BY <1>0, <2>1, <2>2
<1>3. ASSUME NEW i \in P + 1 .. n, i - 1 \in Q PROVE i \in Q
  <2>1. i \in 1 .. n /\ i \in P .. n /\ i # P
    BY <1>0
  <2>2. d[i] = (d[i - 1] * (P - 1) + v[i]) \div P
    BY <1>1, <2>1 DEF SmoothRule
  <2>3. d[i - 1] = 0 /\ v[i] = 0
    BY <1>3, <2>1
  <2> HIDE DEF P
  <2>4. (0 * (P - 1) + 0) \div P = 0
    BY <1>0
  <2> QED BY <2>1, <2>2, <2>3, <2>4
<1>4. P .. n \subseteq Q
  <2> HIDE DEF Q, P
  <2> QED BY <1>0, <1>2, <1>3, IndexInduction
<1> QED BY <1>0, <1>1, <1>4

-----------------------------------------------------------------------------
(* The RSI.                                                                 *)

LEMMA ClosingType == \A c \in Closing : c \in Nat /\ c \div Unit \in Int
<1> SUFFICES ASSUME NEW p \in Prices PROVE p * Unit \in Nat /\ (p * Unit) \div Unit \in Int
  BY DEF Closing
<1> DEFINE x == p * Unit
<1>1. Unit \in Nat \ {0} /\ p \in Nat
  BY IndicatorAssumption
<1>2. x \in Nat
  BY <1>1
<1> HIDE DEF x
<1>3. x \div Unit \in Int
  BY <1>1, <1>2, DivBounds
<1> QED BY <1>2, <1>3 DEF x

LEMMA WiderSeq ==
  ASSUME NEW S, NEW T, S \subseteq T, NEW s \in Seq(S)
  PROVE  s \in Seq(T) /\ Len(s) \in Nat
<1>1. Len(s) \in Nat /\ s \in [1 .. Len(s) -> S]
  OBVIOUS
<1>2. s \in [1 .. Len(s) -> T]
  BY <1>1
<1> QED BY <1>1, <1>2

LEMMA PricesAreClosing == SignalSpec => [](prices \in Seq(Closing))
<1>1. SignalInit => prices \in Seq(Closing)
  BY DEF SignalInit
<1>2. prices \in Seq(Closing) /\ [Day]_prices => (prices \in Seq(Closing))'
  <2> SUFFICES ASSUME prices \in Seq(Closing), Day PROVE prices' \in Seq(Closing)
    OBVIOUS
  <2>1. PICK p \in Prices : prices' = Append(prices, p * Unit)
    BY DEF Day
  <2>2. p * Unit \in Closing
    BY DEF Closing
  <2> HIDE DEF Closing
  <2> QED BY <2>1, <2>2
<1> QED BY <1>1, <1>2, PTL DEF SignalSpec

LEMMA GainsType ==
  ASSUME NEW s \in Seq(Int), HasRSI(s)
  PROVE  /\ Gains(s) \in Seq(Int) /\ Losses(s) \in Seq(Int)
         /\ Len(Gains(s)) = Len(s) - 1 /\ Len(Losses(s)) = Len(s) - 1 /\ RSIPeriod <= Len(s) - 1
         /\ \A i \in 1 .. Len(s) - 1 :
              /\ s[i] \in Int /\ s[i + 1] \in Int
              /\ Gains(s)[i] = Gain(s[i + 1] - s[i]) /\ Losses(s)[i] = Loss(s[i + 1] - s[i])
              /\ Gains(s)[i] >= 0 /\ Losses(s)[i] >= 0
<1> DEFINE n == Len(s) - 1
<1>1. n \in Nat /\ RSIPeriod <= n
  BY IndicatorAssumption DEF HasRSI
<1>2. \A i \in 1 .. n : s[i] \in Int /\ s[i + 1] \in Int
  <2> SUFFICES ASSUME NEW i \in 1 .. n PROVE s[i] \in Int /\ s[i + 1] \in Int
    OBVIOUS
  <2>1. i \in 1 .. Len(s) /\ i + 1 \in 1 .. Len(s)
    OBVIOUS
  <2> QED BY <2>1
<1>3. \A i \in 1 .. n : Changes(s)[i] = s[i + 1] - s[i] /\ Changes(s)[i] \in Int
  BY <1>2 DEF Changes
<1>4. \A x \in Int : Gain(x) \in Int /\ Loss(x) \in Int /\ Gain(x) >= 0 /\ Loss(x) >= 0
  BY DEF Gain, Loss
<1>5. \A i \in 1 .. n : Gain(Changes(s)[i]) \in Int /\ Loss(Changes(s)[i]) \in Int
  BY <1>3, <1>4
<1>6. Gains(s) \in Seq(Int) /\ Losses(s) \in Seq(Int) /\ Len(Gains(s)) = n /\ Len(Losses(s)) = n
  BY <1>1, <1>5 DEF Gains, Losses
<1>7. \A i \in 1 .. n : Gains(s)[i] = Gain(Changes(s)[i]) /\ Losses(s)[i] = Loss(Changes(s)[i])
  BY DEF Gains, Losses
<1> HIDE DEF n
<1>8. \A i \in 1 .. n : /\ Gains(s)[i] = Gain(s[i + 1] - s[i]) /\ Losses(s)[i] = Loss(s[i + 1] - s[i])
                        /\ Gains(s)[i] >= 0 /\ Losses(s)[i] >= 0
  BY <1>3, <1>4, <1>7
<1> QED BY <1>1, <1>2, <1>6, <1>8 DEF n

\* The average gain and the average loss are no negative numbers.
LEMMA AvgType ==
  ASSUME NEW s \in Seq(Int), HasRSI(s)
  PROVE  AvgGain(s) \in Nat /\ AvgLoss(s) \in Nat
<1>1. AvgGain(s) = Smoothed(Gains(s)) /\ AvgLoss(s) = Smoothed(Losses(s))
  BY DEF AvgGain, AvgLoss
<1> QED BY <1>1, GainsType, SmoothedNat

LEMMA WithLast ==
  ASSUME NEW s \in Seq(Int), s # <<>>, NEW x \in Int
  PROVE  LET t == Append(Front(s), x)
         IN  /\ t \in Seq(Int) /\ Len(t) = Len(s) /\ t[Len(s)] = x
             /\ \A i \in 1 .. Len(s) - 1 : t[i] = s[i]
<1> DEFINE f == SubSeq(s, 1, Len(s) - 1)
           t == Append(f, x)
           n == Len(s) - 1
<1>1. n \in Nat /\ n <= Len(s) /\ 1 \in Nat \ {0}
  OBVIOUS
<1>2. f \in Seq(Int) /\ Len(f) = n /\ \A i \in 1 .. n : f[i] = s[i]
  <2>1. /\ f \in Seq(Int) /\ Len(f) = IF 1 <= n THEN n - 1 + 1 ELSE 0
        /\ \A i \in 1 .. n - 1 + 1 : f[i] = s[1 + i - 1]
    BY <1>1, Piece
  <2>2. n - 1 + 1 = n /\ \A i \in 1 .. n : 1 + i - 1 = i
    BY <1>1
  <2> HIDE DEF f, n
  <2> QED BY <1>1, <2>1, <2>2
<1>3. Front(s) = f
  BY DEF Front
<1> HIDE DEF f
<1>4. t \in Seq(Int) /\ Len(t) = n + 1 /\ t[n + 1] = x /\ \A i \in 1 .. n : t[i] = f[i]
  BY <1>1, <1>2
<1>5. n + 1 = Len(s)
  OBVIOUS
<1> HIDE DEF n, t
<1>6. t \in Seq(Int) /\ Len(t) = Len(s) /\ t[Len(s)] = x /\ \A i \in 1 .. n : t[i] = s[i]
  BY <1>2, <1>4, <1>5
<1> QED BY <1>3, <1>6 DEF n, t

\* A higher last price means no lesser gain and no greater loss.
LEMMA HigherLast ==
  ASSUME NEW s \in Seq(Int), HasRSI(s), NEW t \in Seq(Int), Len(t) = Len(s), s[Len(s)] <= t[Len(s)],
         \A i \in 1 .. Len(s) - 1 : s[i] = t[i]
  PROVE  AvgGain(s) <= AvgGain(t) /\ AvgLoss(s) >= AvgLoss(t)
<1> DEFINE n == Len(s) - 1
<1>1. HasRSI(t) /\ n \in Nat
  BY IndicatorAssumption DEF HasRSI
<1>2. \A x, y \in Int : x <= y => Gain(x) <= Gain(y) /\ Loss(y) <= Loss(x)
  BY DEF Gain, Loss
<1>3. ASSUME NEW i \in 1 .. n PROVE Gains(s)[i] <= Gains(t)[i] /\ Losses(t)[i] <= Losses(s)[i]
  <2>1. /\ s[i] \in Int /\ s[i + 1] \in Int /\ Gains(s)[i] = Gain(s[i + 1] - s[i]) /\ Losses(s)[i] = Loss(s[i + 1] - s[i])
    BY GainsType
  <2>2. /\ t[i] \in Int /\ t[i + 1] \in Int /\ Gains(t)[i] = Gain(t[i + 1] - t[i]) /\ Losses(t)[i] = Loss(t[i + 1] - t[i])
    BY <1>1, GainsType
  <2>3. s[i] = t[i] /\ (i + 1 \in 1 .. n \/ i + 1 = Len(s))
    BY <1>1
  <2>4. s[i + 1] <= t[i + 1]
    BY <2>1, <2>3
  <2>5. s[i + 1] - s[i] \in Int /\ t[i + 1] - t[i] \in Int /\ s[i + 1] - s[i] <= t[i + 1] - t[i]
    <3>1. \A a, b, d \in Int : a <= b => a - d \in Int /\ b - d \in Int /\ a - d <= b - d
      OBVIOUS
    <3> QED BY <3>1, <2>1, <2>2, <2>3, <2>4
  <2> QED BY <1>2, <2>1, <2>2, <2>5
<1>4. /\ AvgGain(s) = Smoothed(Gains(s)) /\ AvgLoss(s) = Smoothed(Losses(s))
      /\ AvgGain(t) = Smoothed(Gains(t)) /\ AvgLoss(t) = Smoothed(Losses(t))
  BY DEF AvgGain, AvgLoss
<1>5. /\ Gains(s) \in Seq(Int) /\ Losses(s) \in Seq(Int) /\ Gains(t) \in Seq(Int) /\ Losses(t) \in Seq(Int)
      /\ Len(Gains(s)) = n /\ Len(Losses(s)) = n /\ Len(Gains(t)) = n /\ Len(Losses(t)) = n /\ RSIPeriod <= n
  BY <1>1, GainsType
<1>6. Smoothed(Gains(s)) <= Smoothed(Gains(t))
  BY <1>3, <1>5, SmoothedNoLess
<1>7. Smoothed(Losses(t)) <= Smoothed(Losses(s))
  BY <1>3, <1>5, SmoothedNoLess
<1>8. Smoothed(Losses(t)) \in Int /\ Smoothed(Losses(s)) \in Int
  BY <1>1, <1>4, AvgType
<1> QED BY <1>4, <1>6, <1>7, <1>8

\* The RSI is a number between 0 and 100.
LEMMA RSIRange ==
  ASSUME NEW s \in Seq(Int), HasRSI(s)
  PROVE  LET rsi == CalcRSI(s)
         IN  rsi[1] \in Nat /\ rsi[2] \in Nat \ {0} /\ ~Under(rsi, 0) /\ ~Over(rsi, 100)
<1> DEFINE g == AvgGain(s)
           l == AvgLoss(s)
           rsi == CalcRSI(s)
<1>1. g \in Nat /\ l \in Nat
  BY AvgType
<1>2. rsi[1] = (IF l = 0 THEN 100 ELSE 100 * g) /\ rsi[2] = (IF l = 0 THEN 1 ELSE g + l)
  BY DEF CalcRSI
<1> HIDE DEF g, l, rsi
<1>3. rsi[1] \in Nat /\ rsi[2] \in Nat \ {0} /\ rsi[1] <= 100 * rsi[2]
  BY <1>1, <1>2
<1> QED BY <1>3 DEF Under, Over, rsi

\* It is 100 where nothing was lost.
LEMMA RSIOfNoFall ==
  ASSUME NEW s \in Seq(Int), HasRSI(s), \A i \in 1 .. Len(s) - 1 : s[i] <= s[i + 1]
  PROVE  CalcRSI(s) = <<100, 1>>
<1>1. /\ Losses(s) \in Seq(Int) /\ Len(Losses(s)) = Len(s) - 1 /\ RSIPeriod <= Len(s) - 1
      /\ \A i \in 1 .. Len(s) - 1 : s[i] \in Int /\ s[i + 1] \in Int /\ Losses(s)[i] = Loss(s[i + 1] - s[i])
  BY GainsType
<1>2. \A x, y \in Int : x <= y => Loss(y - x) = 0
  BY DEF Loss
<1>3. \A i \in 1 .. Len(Losses(s)) : Losses(s)[i] = 0
  BY <1>1, <1>2
<1>4. AvgLoss(s) = 0
  BY <1>1, <1>3, SmoothedOfZeros DEF AvgLoss
<1> QED BY <1>4 DEF CalcRSI

\* A bound in percent of gain and loss together is one of the gain against the loss.
LEMMA RSIBound ==
  ASSUME NEW x \in Nat, NEW y \in Nat, NEW v \in 0 .. 100
  PROVE  /\ x * (100 - v) \in Nat /\ y * v \in Nat
         /\ (100 * x > v * (x + y)) = (x * (100 - v) > y * v)
         /\ (100 * x < v * (x + y)) = (x * (100 - v) < y * v)
OBVIOUS

GainSide(s, v) == AvgGain(s) * (100 - v)
LossSide(s, v) == AvgLoss(s) * v

LEMMA RSIBounds ==
  ASSUME NEW s \in Seq(Int), HasRSI(s), NEW v \in 0 .. 100
  PROVE  /\ AvgLoss(s) \in Nat /\ GainSide(s, v) \in Nat /\ LossSide(s, v) \in Nat
         /\ v = 100 => GainSide(s, v) = 0
         /\ Over(CalcRSI(s), v) <=> IF AvgLoss(s) = 0 THEN 100 > v ELSE GainSide(s, v) > LossSide(s, v)
         /\ Under(CalcRSI(s), v) <=> IF AvgLoss(s) = 0 THEN FALSE ELSE GainSide(s, v) < LossSide(s, v)
<1> DEFINE g == AvgGain(s)
           l == AvgLoss(s)
           gain == GainSide(s, v)
           loss == LossSide(s, v)
<1>1. g \in Nat /\ l \in Nat /\ v \in Nat /\ v <= 100
  BY AvgType
<1>2. CalcRSI(s) = IF l = 0 THEN <<100, 1>> ELSE <<100 * g, g + l>>
  BY DEF CalcRSI
<1>3. gain = g * (100 - v) /\ loss = l * v
  BY DEF GainSide, LossSide
<1> HIDE DEF g, l, gain, loss
<1>4. /\ gain \in Nat /\ loss \in Nat
      /\ (100 * g > v * (g + l)) = (gain > loss) /\ (100 * g < v * (g + l)) = (gain < loss)
  BY <1>1, <1>3, RSIBound
<1>5. v = 100 => gain = 0
  BY <1>1, <1>3
<1>6. CASE l = 0
  <2>1. CalcRSI(s)[1] = 100 /\ CalcRSI(s)[2] = 1 /\ v * 1 = v
    BY <1>1, <1>2, <1>6
  <2>2. (Over(CalcRSI(s), v) <=> 100 > v) /\ ~Under(CalcRSI(s), v)
    BY <1>1, <2>1 DEF Over, Under
  <2> QED BY <1>1, <1>4, <1>5, <1>6, <2>2 DEF l, gain, loss
<1>7. CASE l # 0
  <2>1. CalcRSI(s)[1] = 100 * g /\ CalcRSI(s)[2] = g + l
    BY <1>2, <1>7
  <2>2. (Over(CalcRSI(s), v) <=> gain > loss) /\ (Under(CalcRSI(s), v) <=> gain < loss)
    BY <1>4, <2>1 DEF Over, Under
  <2> QED BY <1>1, <1>4, <1>5, <1>7, <2>2 DEF l, gain, loss
<1> QED BY <1>6, <1>7

\* With no lesser gain and no greater loss it exceeds every bound that it exceeded,
\* and is under none that it was not under.
LEMMA RSIFollows ==
  ASSUME NEW s \in Seq(Int), HasRSI(s), NEW t \in Seq(Int), HasRSI(t), NEW v \in 0 .. 100,
         AvgGain(s) <= AvgGain(t), AvgLoss(t) <= AvgLoss(s)
  PROVE  /\ Over(CalcRSI(s), v) => Over(CalcRSI(t), v)
         /\ Under(CalcRSI(t), v) => Under(CalcRSI(s), v)
<1>1. GainSide(s, v) <= GainSide(t, v)
  <2>1. AvgGain(s) \in Int /\ AvgGain(t) \in Int /\ 100 - v \in Nat
    BY AvgType
  <2> QED BY <2>1, MulNoLess DEF GainSide
<1>2. LossSide(t, v) <= LossSide(s, v)
  <2>1. AvgLoss(s) \in Int /\ AvgLoss(t) \in Int /\ v \in Nat
    BY AvgType
  <2> QED BY <2>1, MulNoLess DEF LossSide
<1> DEFINE gs == GainSide(s, v)
           gt == GainSide(t, v)
           ls == LossSide(s, v)
           lt == LossSide(t, v)
<1>3. /\ AvgLoss(s) \in Nat /\ gs \in Nat /\ ls \in Nat /\ (v = 100 => gs = 0)
      /\ Over(CalcRSI(s), v) <=> IF AvgLoss(s) = 0 THEN 100 > v ELSE gs > ls
      /\ Under(CalcRSI(s), v) <=> IF AvgLoss(s) = 0 THEN FALSE ELSE gs < ls
  BY RSIBounds
<1>4. /\ AvgLoss(t) \in Nat /\ gt \in Nat /\ lt \in Nat
      /\ Over(CalcRSI(t), v) <=> IF AvgLoss(t) = 0 THEN 100 > v ELSE gt > lt
      /\ Under(CalcRSI(t), v) <=> IF AvgLoss(t) = 0 THEN FALSE ELSE gt < lt
  BY RSIBounds
<1>5. v \in Nat /\ v <= 100
  OBVIOUS
<1>6. AvgLoss(s) = 0 => AvgLoss(t) = 0
  BY <1>3, <1>4
<1>7. Over(CalcRSI(s), v) => Over(CalcRSI(t), v)
  BY <1>1, <1>2, <1>3, <1>4, <1>5, <1>6
<1>8. Under(CalcRSI(t), v) => Under(CalcRSI(s), v)
  BY <1>1, <1>2, <1>3, <1>4, <1>6
<1> QED BY <1>7, <1>8

\* For any series of prices and any periods: the RSI is a number from 0 to 100, made of
\* no negative average and no division by zero; it is 100 of a series that never fell;
\* and it rises with the last price.
THEOREM RSIAlwaysRises == SignalSpec => []RSIRises
<1>1. prices \in Seq(Closing) => RSIRises
  <2> SUFFICES ASSUME prices \in Seq(Closing), HasRSI(prices) PROVE RSIRises
    BY DEF RSIRises
  <2>1. prices \in Seq(Int) /\ prices # <<>> /\ Len(prices) \in Nat
    <3>1. Closing \subseteq Int
      BY ClosingType
    <3>2. prices \in Seq(Int) /\ Len(prices) \in Nat
      BY <3>1, WiderSeq
    <3>3. prices # <<>>
      BY IndicatorAssumption DEF HasRSI
    <3> QED BY <3>2, <3>3
  <2> DEFINE n == Len(prices)
             Priced(p, t) == /\ t \in Seq(Int) /\ Len(t) = n /\ t[n] = p * Unit
                             /\ \A i \in 1 .. n - 1 : t[i] = prices[i]
  <2>2. ASSUME NEW p \in Prices PROVE Priced(p, With(p)) /\ HasRSI(With(p)) /\ p * Unit \in Int
    <3> DEFINE x == p * Unit
               t == Append(Front(prices), x)
    <3>1. x \in Int
      BY IndicatorAssumption
    <3>2. With(p) = t
      BY DEF With
    <3> HIDE DEF x
    <3>3. t \in Seq(Int) /\ Len(t) = n /\ t[n] = x /\ \A i \in 1 .. n - 1 : t[i] = prices[i]
      BY <2>1, <3>1, WithLast
    <3> HIDE DEF t
    <3>4. HasRSI(t)
      BY <3>3 DEF HasRSI
    <3> QED BY <3>1, <3>2, <3>3, <3>4 DEF x
  <2>3. ASSUME NEW p \in Prices
        PROVE  LET rsi == CalcRSI(With(p))
               IN  /\ AvgGain(With(p)) >= 0 /\ AvgLoss(With(p)) >= 0
                   /\ 0 < rsi[2] /\ ~Under(rsi, 0) /\ ~Over(rsi, 100)
    <3> DEFINE t == With(p)
               rsi == CalcRSI(t)
    <3>1. t \in Seq(Int) /\ HasRSI(t)
      BY <2>2
    <3> HIDE DEF t
    <3>2. AvgGain(t) >= 0 /\ AvgLoss(t) >= 0
      BY <3>1, AvgType
    <3>3. rsi[2] \in Nat \ {0} /\ ~Under(rsi, 0) /\ ~Over(rsi, 100)
      BY <3>1, RSIRange
    <3> HIDE DEF rsi
    <3>4. 0 < rsi[2]
      BY <3>3
    <3> QED BY <3>2, <3>3, <3>4 DEF rsi, t
  <2>4. Rising => ~RSIBelow(prices, 100)
    <3> SUFFICES ASSUME Rising PROVE ~RSIBelow(prices, 100)
      OBVIOUS
    <3>1. CalcRSI(prices) = <<100, 1>>
      BY <2>1, RSIOfNoFall DEF Rising
    <3> QED BY <3>1 DEF RSIBelow, Under
  <2>5. ASSUME NEW a \in Prices, NEW b \in Prices, a < b, NEW v \in 0 .. 100
        PROVE  /\ Over(CalcRSI(With(a)), v) => Over(CalcRSI(With(b)), v)
               /\ Under(CalcRSI(With(b)), v) => Under(CalcRSI(With(a)), v)
    <3> DEFINE s == With(a)
               t == With(b)
    <3>1. a * Unit \in Int /\ b * Unit \in Int /\ a * Unit <= b * Unit
      <4>1. a \in Int /\ b \in Int /\ a <= b /\ Unit \in Nat
        BY <2>5, IndicatorAssumption
      <4> QED BY <4>1, MulNoLess
    <3>2. Priced(a, s) /\ HasRSI(s) /\ Priced(b, t) /\ HasRSI(t)
      BY <2>2
    <3> HIDE DEF s, t
    <3>3. AvgGain(s) <= AvgGain(t) /\ AvgLoss(s) >= AvgLoss(t)
      BY <3>1, <3>2, HigherLast
    <3>4. AvgLoss(s) \in Nat /\ AvgLoss(t) \in Nat
      BY <3>2, AvgType
    <3>5. /\ Over(CalcRSI(s), v) => Over(CalcRSI(t), v)
          /\ Under(CalcRSI(t), v) => Under(CalcRSI(s), v)
      BY <3>2, <3>3, <3>4, RSIFollows
    <3> QED BY <3>5 DEF s, t
  <2> QED BY <2>3, <2>4, <2>5 DEF RSIRises
<1> QED BY <1>1, PricesAreClosing, PTL

-----------------------------------------------------------------------------
(* What the prices give the score.                                          *)

LEMMA RSIType ==
  ASSUME NEW s \in Seq(Int), HasRSI(s)
  PROVE  RoundedRSI(s) \in Int
<1> DEFINE x == CalcRSI(s)[1]
           k == CalcRSI(s)[2]
<1>1. x \in Nat /\ k \in Nat \ {0}
  BY RSIRange
<1> HIDE DEF x, k
<1>2. (-x) \div k \in Int
  <2>1. -x \in Int
    BY <1>1
  <2> QED BY <1>1, <2>1, DivBounds
<1>3. -((-x) \div k) \in Int
  BY <1>2
<1> QED BY <1>3 DEF RoundedRSI, x, k

LEMMA DeviationType ==
  ASSUME NEW s \in Seq(Int), NEW period \in Nat \ {0}, HasMA(s, period)
  PROVE  Deviation(s, period) \in Int
<1> DEFINE m == CalcSMA(s, period)
           x == Whole * (Last(s) - m)
<1>1. m \in Nat \ {0}
  <2>1. period <= Len(s) /\ m > 0
    BY DEF HasMA
  <2>2. m \in Int
    BY <2>1, SMAType
  <2> HIDE DEF m
  <2> QED BY <2>1, <2>2
<1>2. Last(s) \in Int
  <2>1. Len(s) \in 1 .. Len(s)
    BY DEF HasMA
  <2> QED BY <2>1 DEF Last
<1>3. Deviation(s, period) = x \div m
  BY DEF Deviation
<1> HIDE DEF m
<1>4. x \in Int
  BY <1>1, <1>2 DEF Whole
<1> HIDE DEF x
<1> QED BY <1>1, <1>3, <1>4, DivBounds

LEMMA MACDType ==
  ASSUME NEW s \in Seq(Int), HasMACD(s)
  PROVE  MACD(s) \in Int
<1>1. Fast \in Nat \ {0} /\ Slow \in Nat \ {0} /\ Fast <= Len(s) /\ Slow <= Len(s)
  BY IndicatorAssumption DEF HasMACD
<1>2. CalcEMA(s, Fast) \in Int /\ CalcEMA(s, Slow) \in Int
  BY <1>1, EMAType
<1> QED BY <1>2 DEF MACD

LEMMA HistType ==
  ASSUME NEW s \in Seq(Int), HasHist(s)
  PROVE  Hist(s) \in Int
<1> DEFINE n == Len(s) - Slow + 1
           v == MACDValues(s)
<1>1. n \in Nat /\ Slow \in Nat \ {0} /\ Slow <= Len(s) /\ SigPeriod \in Nat \ {0} /\ HasMACD(s)
  BY IndicatorAssumption DEF HasHist, HasMACD
<1>2. ASSUME NEW i \in 1 .. n PROVE MACD(SubSeq(s, 1, i + Slow - 1)) \in Int
  <2> DEFINE m == i + Slow - 1
             p == SubSeq(s, 1, m)
  <2>1. m \in Nat /\ m <= Len(s) /\ 1 <= m /\ m - 1 + 1 = m /\ 1 \in Nat \ {0} /\ Slow <= m
    BY <1>1
  <2> HIDE DEF m
  <2>2. p \in Seq(Int) /\ Len(p) = IF 1 <= m THEN m - 1 + 1 ELSE 0
    BY <2>1, Piece
  <2> HIDE DEF p
  <2>3. HasMACD(p)
    BY <2>1, <2>2 DEF HasMACD
  <2>4. MACD(p) \in Int
    BY <2>2, <2>3, MACDType
  <2> QED BY <2>4 DEF p, m
<1>3. v = [i \in 1 .. n |-> MACD(SubSeq(s, 1, i + Slow - 1))]
  BY DEF MACDValues
<1> HIDE DEF v, n
<1>4. v \in Seq(Int)
  BY <1>1, <1>2, <1>3
<1>5. SigPeriod <= Len(v)
  BY DEF HasHist, v
<1>6. CalcEMA(v, SigPeriod) \in Int
  BY <1>1, <1>4, <1>5, EMAType
<1>7. MACD(s) \in Int
  BY <1>1, MACDType
<1> QED BY <1>6, <1>7 DEF Hist, SignalLine, v

LEMMA ChangeType ==
  ASSUME NEW s \in Seq(Closing), Len(s) >= 2
  PROVE  Change(s) \in Int
<1> DEFINE n == Len(s)
           c == s[n] \div Unit
           d == s[n - 1] \div Unit
           x == 100 * Whole * (c - d)
<1>1. n \in 1 .. Len(s) /\ n - 1 \in 1 .. Len(s)
  OBVIOUS
<1>2. c \in Int /\ d \in Int
  <2>1. s[n] \in Closing /\ s[n - 1] \in Closing
    <3> HIDE DEF n
    <3> QED BY <1>1
  <2> HIDE DEF n
  <2> QED BY <2>1, ClosingType
<1>3. Change(s) = IF d > 0 THEN x \div d ELSE 0
  BY DEF Change
<1> HIDE DEF c, d
<1>4. x \in Int
  BY <1>2 DEF Whole
<1> HIDE DEF x
<1>5. d > 0 => x \div d \in Int
  BY <1>2, <1>4, DivBounds
<1> QED BY <1>3, <1>5

LEMMA TechnicalsType ==
  ASSUME NEW s \in Seq(Closing), Len(s) >= 2
  PROVE  Technicals(s) \in Inputs /\ Technicals(s).volume = Null
<1>1. s \in Seq(Int) /\ Len(s) \in Nat
  <2>1. Closing \subseteq Int
    BY ClosingType
  <2> QED BY <2>1, WiderSeq
<1>2. OrNull(HasRSI(s), RoundedRSI(s)) \in NumberOrNull
  BY <1>1, RSIType DEF OrNull, NumberOrNull
<1>3. Short \in Nat \ {0} /\ Long \in Nat \ {0} /\ Unit \in Nat \ {0} /\ Rupiah \in Int
  BY IndicatorAssumption, SignalAssumption
<1>4. OrNull(HasMA(s, Short), Deviation(s, Short)) \in NumberOrNull
  BY <1>1, <1>3, DeviationType DEF OrNull, NumberOrNull
<1>5. OrNull(HasMA(s, Long), Deviation(s, Long)) \in NumberOrNull
  BY <1>1, <1>3, DeviationType DEF OrNull, NumberOrNull
<1>6. OrNull(HasHist(s), Rupiah * ((Whole * Hist(s)) \div Unit)) \in NumberOrNull
  <2>1. CASE HasHist(s)
    <3> DEFINE x == Whole * Hist(s)
               y == x \div Unit
    <3>1. x \in Int
      BY <1>1, <2>1, HistType DEF Whole
    <3> HIDE DEF x
    <3>2. y \in Int
      BY <1>3, <3>1, DivBounds
    <3> HIDE DEF y
    <3>3. Rupiah * y \in Int
      BY <1>3, <3>2
    <3> QED BY <2>1, <3>3 DEF OrNull, NumberOrNull, x, y
  <2> QED BY <2>1 DEF OrNull, NumberOrNull
<1>7. Change(s) \in Int
  BY ChangeType
<1> QED BY <1>2, <1>4, <1>5, <1>6, <1>7 DEF Technicals, Inputs, NumberOrNull

\* The prices that are read are closing prices, enough of them when they count.
LEMMA RecentType ==
  ASSUME prices \in Seq(Closing)
  PROVE  Recent \in Seq(Closing) /\ (Enough => Len(Recent) >= 2)
<1>1. Window \in Nat \ {0} /\ MinDays >= 2 /\ MinDays \in Nat /\ Len(prices) \in Nat
  BY SignalAssumption
<1>2. Recent \in Seq(Closing)
  <2>1. CASE Len(prices) > Window
    <3> DEFINE m == Len(prices) - Window + 1
               n == Len(prices)
    <3>1. m \in Nat \ {0} /\ n \in Nat /\ n <= Len(prices)
      BY <1>1, <2>1
    <3>2. Recent = SubSeq(prices, m, n)
      BY <2>1 DEF Recent
    <3> HIDE DEF m, n
    <3> QED BY <3>1, <3>2, Piece
  <2>2. CASE ~(Len(prices) > Window)
    BY <2>2 DEF Recent
  <2> QED BY <2>1, <2>2
<1>3. Enough => Len(Recent) >= 2
  <2>1. Len(Recent) \in Nat
    BY <1>2
  <2> QED BY <1>1, <2>1 DEF Enough
<1> QED BY <1>2, <1>3

-----------------------------------------------------------------------------
(* The published signals.                                                   *)

\* Whatever the prices and the news, a signal made of the score has a factor on its
\* side, so that its confidence is not zero.
THEOREM SignalsAlwaysBacked == SignalSpec => []SignalsAreBacked
<1>1. prices \in Seq(Closing) => SignalsAreBacked
  <2> SUFFICES ASSUME prices \in Seq(Closing), Enough, NEW a \in Value.sentiment,
                      LET score == CompositeScore(Input(Technicals(Recent), a))
                      IN  score >= 25 * Whole \/ score <= -25 * Whole
               PROVE  Agreeing(Input(Technicals(Recent), a)) # {}
    BY DEF SignalsAreBacked
  <2> DEFINE i == Input(Technicals(Recent), a)
  <2>1. Technicals(Recent) \in Inputs /\ a \in Int
    BY RecentType, TechnicalsType, ScoringAssumption
  <2>2. i \in Inputs
    BY <2>1 DEF Input, Inputs
  <2> HIDE DEF i
  <2>3. \A n \in 1 .. 4 : Factors(i)[n] \in Int
    <3>1. Factors(i) \in [1 .. 4 -> Score]
      BY <2>2, FactorsDef
    <3> QED BY <3>1, ScoreInt
  <2>4. CompositeScore(i) \in Int /\ (CompositeScore(i) >= 25 * Whole \/ CompositeScore(i) <= -25 * Whole)
    <3>1. CompositeScore(i) \in Int
      <4>1. \A n \in 1 .. 4 : Factors(i)[n] <= Factors(i)[n]
        BY <2>3
      <4> QED BY <2>2, <4>1, ScoreNoLess
    <3> QED BY <3>1 DEF i
  <2>5. PICK n \in 1 .. 4 : Agrees(Factors(i)[n], CompositeScore(i))
    BY <2>2, <2>4, ScoreIsBacked DEF Agrees, Whole
  <2>6. Factors(i)[n] \in Int
    BY <2>3
  <2>7. n \in Agreeing(i)
    BY <2>5, <2>6 DEF Agreeing, Counted, Agrees
  <2> QED BY <2>7 DEF i
<1> QED BY <1>1, PricesAreClosing, PTL

LEMMA FieldsNoWorse ==
  ASSUME NEW i \in Inputs, i.volume = Null
  PROVE  /\ \A f \in {"ma20", "ma50", "hist", "change", "flow"} : Helps(i, f)
         /\ Harms(i, "rsi")
<1>1. ASSUME NEW f \in {"ma20", "ma50", "hist", "change", "flow"} PROVE Helps(i, f)
  <2> SUFFICES ASSUME NEW v \in Value[f] \ {Null}, NEW w \in Value[f] \ {Null}, v < w
               PROVE  NoWorse(Rated([i EXCEPT ![f] = v]), Rated([i EXCEPT ![f] = w]))
    BY DEF Helps
  <2> DEFINE a == [i EXCEPT ![f] = v]
             b == [i EXCEPT ![f] = w]
  <2>1. v \in Int /\ w \in Int
    BY ScoringAssumption
  <2>2. a \in Inputs /\ b \in Inputs
    BY <2>1 DEF Inputs, NumberOrNull
  <2>3. Dominated(a, b)
    BY <2>1 DEF Dominated, NoMore, Inputs, NumberOrNull
  <2> HIDE DEF a, b
  <2>4. NoWorse(Rated(a), Rated(b))
    BY <2>2, <2>3, DominatedIsNoBetter
  <2> QED BY <2>4 DEF a, b
<1>2. Harms(i, "rsi")
  <2> SUFFICES ASSUME NEW v \in Value.rsi \ {Null}, NEW w \in Value.rsi \ {Null}, v < w
               PROVE  NoWorse(Rated([i EXCEPT !.rsi = w]), Rated([i EXCEPT !.rsi = v]))
    BY DEF Harms
  <2> DEFINE a == [i EXCEPT !.rsi = w]
             b == [i EXCEPT !.rsi = v]
  <2>1. v \in Int /\ w \in Int
    BY ScoringAssumption
  <2>2. a \in Inputs /\ b \in Inputs
    BY <2>1 DEF Inputs, NumberOrNull
  <2>3. Dominated(a, b)
    BY <2>1 DEF Dominated, NoMore, Inputs
  <2> HIDE DEF a, b
  <2>4. NoWorse(Rated(a), Rated(b))
    BY <2>2, <2>3, DominatedIsNoBetter
  <2> QED BY <2>4 DEF a, b
<1> QED BY <1>1, <1>2

\* Whatever the prices, the news and the periods: better news never lower the score
\* or the signal that is published, and neither does a better trend, MACD, rise or
\* flow, or a lower RSI.
THEOREM BetterIsNeverWorse == SignalSpec => []BetterNewsNoWorse
<1>1. prices \in Seq(Closing) => BetterNewsNoWorse
  <2> SUFFICES ASSUME prices \in Seq(Closing) PROVE BetterNewsNoWorse
    OBVIOUS
  <2> DEFINE t == Technicals(Recent)
  <2>1. \A a \in Value.sentiment : a \in Int
    BY ScoringAssumption
  <2>2. ASSUME Enough, NEW a \in Value.sentiment PROVE Input(t, a) \in Inputs /\ Input(t, a).volume = Null
    <3>1. t \in Inputs /\ t.volume = Null
      BY <2>2, RecentType, TechnicalsType
    <3> HIDE DEF t
    <3> QED BY <2>1, <3>1 DEF Input, Inputs
  <2>3. ASSUME NEW m \in {-1, 0, 1}, NEW a \in Value.sentiment, NEW b \in Value.sentiment, a < b
        PROVE  NoWorse(<<Published(a, m).score, Rank[Published(a, m).signal]>>,
                       <<Published(b, m).score, Rank[Published(b, m).signal]>>)
    <3>1. CASE Enough
      <4> DEFINE x == Input(t, a)
                 y == Input(t, b)
      <4>1. x \in Inputs /\ y \in Inputs
        BY <2>2, <3>1
      <4>2. Dominated(x, y)
        <5>1. t \in Inputs
          BY <3>1, RecentType, TechnicalsType
        <5> HIDE DEF t
        <5> QED BY <2>1, <2>3, <5>1 DEF Dominated, NoMore, Input, Inputs
      <4>3. /\ Published(a, m).score = CompositeScore(x) /\ Published(a, m).signal = CompositeSignal(x)
            /\ Published(b, m).score = CompositeScore(y) /\ Published(b, m).signal = CompositeSignal(y)
        BY <3>1 DEF Published
      <4> HIDE DEF x, y
      <4>4. NoWorse(Rated(x), Rated(y))
        BY <4>1, <4>2, DominatedIsNoBetter
      <4> QED BY <4>3, <4>4 DEF Rated
    <3>2. CASE ~Enough
      <4>1. /\ Published(a, m).score = 100 * a /\ Published(a, m).signal = RepoSignal(a, m)
            /\ Published(b, m).score = 100 * b /\ Published(b, m).signal = RepoSignal(b, m)
        BY <3>2 DEF Published
      <4>2. Rank[RepoSignal(a, m)] <= Rank[RepoSignal(b, m)]
        BY <2>1, <2>3 DEF RepoSignal, Rank, Whole
      <4>3. 100 * a <= 100 * b
        BY <2>1, <2>3
      <4> QED BY <4>1, <4>2, <4>3 DEF NoWorse
    <3> QED BY <3>1, <3>2
  <2>4. ASSUME Enough, NEW a \in Value.sentiment
        PROVE  /\ \A f \in {"ma20", "ma50", "hist", "change", "flow"} : Helps(Input(t, a), f)
               /\ Harms(Input(t, a), "rsi")
    BY <2>2, <2>4, FieldsNoWorse
  <2> HIDE DEF t
  <2> QED BY <2>3, <2>4 DEF BetterNewsNoWorse, t
<1> QED BY <1>1, PricesAreClosing, PTL

-----------------------------------------------------------------------------
(* The sums of the first values of a series.                                *)

First(s, n) == Total(SubSeq(s, 1, n))

LEMMA FirstDef ==
  ASSUME NEW s \in Seq(Int), NEW n \in 1 .. Len(s)
  PROVE  /\ SubSeq(s, 1, n) = [i \in 1 .. n |-> s[i]]
         /\ SubSeq(s, 1, n) \in Seq(Int) /\ Len(SubSeq(s, 1, n)) = n
         /\ First(s, n) \in Int
<1> DEFINE p == SubSeq(s, 1, n)
<1>1. n \in Nat \ {0} /\ n <= Len(s)
  OBVIOUS
<1>2. p \in Seq(Int) /\ Len(p) = n /\ \A i \in 1 .. n : p[i] = s[i]
  BY <1>1, FirstPiece
<1>3. Total(p) \in Int
  <2> HIDE DEF p
  <2> QED BY <1>2, TotalBounds
<1> HIDE DEF p
<1>4. p = [i \in 1 .. n |-> s[i]]
  BY <1>2
<1> QED BY <1>2, <1>3, <1>4 DEF First, p

LEMMA FirstNext ==
  ASSUME NEW s \in Seq(Int), NEW n \in 1 .. Len(s), n - 1 \in 1 .. Len(s)
  PROVE  First(s, n) = First(s, n - 1) + s[n]
<1> DEFINE f == [i \in 1 .. n |-> s[i]]
           g == [i \in 1 .. n - 1 |-> s[i]]
<1>1. First(s, n) = SumFunction(f) /\ First(s, n - 1) = SumFunction(g) /\ First(s, n - 1) \in Int
  BY FirstDef DEF First, Total
<1>2. IsFiniteSet(1 .. n) /\ n \in 1 .. n /\ f \in [1 .. n -> Int] /\ s[n] \in Int
  <2>1. n \in Nat
    OBVIOUS
  <2>2. IsFiniteSet(1 .. n)
    BY <2>1, UpTo
  <2> QED BY <2>2
<1>3. g \in [(1 .. n) \ {n} -> Int] /\ \A y \in (1 .. n) \ {n} : g[y] = f[y]
  <2>1. (1 .. n) \ {n} = 1 .. n - 1 /\ 1 .. n - 1 \subseteq 1 .. n
    OBVIOUS
  <2>2. \A i \in 1 .. n : s[i] \in Int
    OBVIOUS
  <2> QED BY <2>1, <2>2
<1>4. SumFunction(f) = f[n] + SumFunction(g)
  <2> DEFINE S == 1 .. n
             m == n
             R == S \ {m}
  <2>1. IsFiniteSet(S) /\ f \in [S -> Int] /\ m \in S
    BY <1>2
  <2>2. R = S \ {m} /\ g \in [R -> Int] /\ \A y \in R : g[y] = f[y]
    BY <1>3
  <2>3. Without(f, g, S, R, m)
    <3> HIDE DEF f, g, S, R, m
    <3> QED BY <2>1, <2>2 DEF Without
  <2>4. SumFunction(f) = f[m] + SumFunction(g)
    <3> HIDE DEF f, g, S, R, m
    <3> QED BY <2>3, SumRemove
  <2> QED BY <2>4
<1>5. f[n] = s[n]
  BY <1>2
<1> HIDE DEF f, g
<1>6. First(s, n) = s[n] + First(s, n - 1)
  BY <1>1, <1>4, <1>5
<1> QED BY <1>1, <1>2, <1>6

\* The values of a series that does not fall, up to the last, add up to no more
\* than as many times the last.
LEMMA FirstNoMore ==
  ASSUME NEW s \in Seq(Int), NEW n \in 1 .. Len(s), \A i \in 1 .. n : s[i] <= s[n]
  PROVE  First(s, n) <= s[n] * n
<1> DEFINE c == s[n]
           p == SubSeq(s, 1, n)
           u == [i \in 1 .. n |-> c]
<1>1. c \in Int /\ n \in Nat
  OBVIOUS
<1>2. p \in Seq(Int) /\ Len(p) = n /\ p = [i \in 1 .. n |-> s[i]]
  BY FirstDef
<1>3. u \in Seq(Int) /\ Len(u) = n /\ \A i \in 1 .. n : u[i] = c
  BY <1>1
<1>4. Total(u) = c * n
  <2>1. IsFiniteSet(1 .. n) /\ Cardinality(1 .. n) = n
    BY <1>1, UpTo
  <2> HIDE DEF c
  <2>2. SumFunction([i \in 1 .. n |-> c]) = c * Cardinality(1 .. n)
    BY <1>1, <2>1, SumOfEqual
  <2> QED BY <2>1, <2>2 DEF Total
<1> HIDE DEF u, p
<1>5. \A i \in 1 .. Len(p) : p[i] <= u[i]
  BY <1>2, <1>3
<1>6. Total(p) <= Total(u)
  BY <1>2, <1>3, <1>5, TotalNoLess
<1> QED BY <1>4, <1>6 DEF First, p

-----------------------------------------------------------------------------
(* Where the arithmetic is exact.                                           *)

LEMMA PricesAreSeries == SignalSpec => [](prices \in Seq(Closing) /\ Len(prices) <= MaxDays)
<1> DEFINE Inv == prices \in Seq(Closing) /\ Len(prices) <= MaxDays
<1>1. SignalInit => Inv
  BY IndicatorAssumption DEF SignalInit
<1>2. Inv /\ [Day]_prices => Inv'
  <2> SUFFICES ASSUME Inv, Day PROVE prices' \in Seq(Closing) /\ Len(prices') <= MaxDays
    OBVIOUS
  <2>1. PICK p \in Prices : prices' = Append(prices, p * Unit)
    BY DEF Day
  <2>2. p * Unit \in Closing
    BY DEF Closing
  <2>3. Len(prices) < MaxDays /\ MaxDays \in Nat
    BY IndicatorAssumption DEF Day
  <2> HIDE DEF Closing
  <2> QED BY <2>1, <2>2, <2>3
<1> QED BY <1>1, <1>2, PTL DEF SignalSpec

LEMMA InSeries ==
  ASSUME NEW s \in Seq(Closing), Len(s) <= MaxDays, s # <<>>
  PROVE  s \in Series
<1>1. Len(s) \in 1 .. MaxDays /\ s \in [1 .. Len(s) -> Closing]
  BY IndicatorAssumption
<1> QED BY <1>1 DEF Series

\* A quotient without a remainder.
LEMMA Exactly ==
  ASSUME NEW x \in Int, NEW k \in Nat \ {0}, x % k = 0
  PROVE  x \div k \in Int /\ (x \div k) * k = x
OBVIOUS

LEMMA MulCancel ==
  ASSUME NEW x \in Int, NEW y \in Int, NEW k \in Nat \ {0}, x * k <= y * k
  PROVE  x <= y
<1> SUFFICES ASSUME x >= y + 1 PROVE FALSE
  OBVIOUS
<1>1. (y + 1) * k <= x * k
  BY MulNoLess
<1>2. (y + 1) * k = y * k + k /\ y * k \in Int /\ x * k \in Int
  OBVIOUS
<1> QED BY <1>1, <1>2

\* What an exact running average is made of.
LEMMA EMAExactly ==
  ASSUME NEW s \in Seq(Int), NEW period \in Nat \ {0}, period <= Len(s), EvenEMA(s, period)
  PROVE  LET e == EMA(s, period)
         IN  /\ e[period] \in Int /\ e[period] * period = First(s, period)
             /\ \A i \in period + 1 .. Len(s) :
                  /\ e[i - 1] \in Int /\ s[i] \in Int
                  /\ \E q \in Int : e[i] = e[i - 1] + q /\ q * (period + 1) = (s[i] - e[i - 1]) * 2
<1> DEFINE e == EMA(s, period)
           n == Len(s)
<1>1. EMARule(e, s, period) /\ e \in [period .. n -> Int] /\ n \in Nat
  BY EMADef
<1>2. /\ EvenSeed(s, period)
      /\ \A i \in period + 1 .. n : ((s[i] - e[i - 1]) * 2) % (period + 1) = 0
  BY DEF EvenEMA
<1> HIDE DEF e
<1>3. e[period] \in Int /\ e[period] * period = First(s, period)
  <2> DEFINE x == First(s, period)
  <2>1. period \in 1 .. n
    BY <1>1
  <2>2. x \in Int
    BY <2>1, FirstDef
  <2>3. e[period] = x \div period /\ x % period = 0
    BY <1>1, <1>2 DEF EMARule, Seed, EvenSeed, First
  <2> HIDE DEF x
  <2>4. x \div period \in Int /\ (x \div period) * period = x
    BY <2>2, <2>3, Exactly
  <2> QED BY <2>3, <2>4 DEF x
<1>4. ASSUME NEW i \in period + 1 .. n
      PROVE  /\ e[i - 1] \in Int /\ s[i] \in Int
             /\ \E q \in Int : e[i] = e[i - 1] + q /\ q * (period + 1) = (s[i] - e[i - 1]) * 2
  <2> DEFINE x == (s[i] - e[i - 1]) * 2
             q == x \div (period + 1)
  <2>1. i \in period .. n /\ i - 1 \in period .. n /\ i # period /\ i \in 1 .. Len(s)
    BY <1>1
  <2>2. e[i - 1] \in Int /\ s[i] \in Int
    <3>1. e[i - 1] \in Int
      BY <1>1, <2>1
    <3>2. s[i] \in Int
      BY <2>1
    <3> QED BY <3>1, <3>2
  <2>3. e[i] = e[i - 1] + q
    BY <1>1, <2>1 DEF EMARule
  <2>4. x \in Int /\ x % (period + 1) = 0 /\ period + 1 \in Nat \ {0}
    <3>1. x % (period + 1) = 0
      BY <1>2
    <3>2. x \in Int
      BY <2>2
    <3> QED BY <3>1, <3>2
  <2> HIDE DEF x
  <2>5. q \in Int /\ q * (period + 1) = x
    BY <2>4, Exactly
  <2> HIDE DEF q
  <2> QED BY <2>2, <2>3, <2>5 DEF x
<1> QED BY <1>3, <1>4 DEF e

-----------------------------------------------------------------------------
(* The averages of a series that does not fall.                             *)

NoFall(s) == \A i, j \in 1 .. Len(s) : i <= j => s[i] <= s[j]

\* A step towards the new value stays between the old average and it.
LEMMA Towards ==
  ASSUME NEW e \in Int, NEW x \in Int, NEW q \in Int, NEW k \in Nat, k >= 2, q * k = (x - e) * 2, e <= x
  PROVE  0 <= q /\ q <= x - e
<1>1. 0 * k <= q * k /\ k \in Nat \ {0}
  OBVIOUS
<1>2. 0 <= q
  BY <1>1, MulCancel
<1>3. q * 2 <= q * k
  <2>1. q \in Nat /\ 2 * q <= k * q
    BY <1>2, MulNoLess
  <2>2. 2 * q = q * 2 /\ k * q = q * k
    OBVIOUS
  <2> QED BY <2>1, <2>2
<1> DEFINE z == q * k
<1>4. z \in Int /\ q * 2 <= z /\ z = (x - e) * 2
  BY <1>3
<1> HIDE DEF z
<1> QED BY <1>2, <1>4

\* An average lies under the last value it has seen.
LEMMA AverageUnderLast ==
  ASSUME NEW s \in Seq(Int), NEW period \in Nat \ {0}, period <= Len(s), EvenEMA(s, period), NoFall(s)
  PROVE  \A i \in period .. Len(s) : EMA(s, period)[i] \in Int /\ EMA(s, period)[i] <= s[i]
<1> DEFINE e == EMA(s, period)
           n == Len(s)
           P == {i \in period .. n : e[i] <= s[i]}
<1>1. /\ e[period] \in Int /\ e[period] * period = First(s, period)
      /\ \A i \in period + 1 .. n :
           /\ e[i - 1] \in Int /\ s[i] \in Int
           /\ \E q \in Int : e[i] = e[i - 1] + q /\ q * (period + 1) = (s[i] - e[i - 1]) * 2
  BY EMAExactly
<1>2. e \in [period .. n -> Int] /\ n \in Nat
  BY EMADef
<1> HIDE DEF e
<1>3. period \in P
  <2>1. period \in 1 .. n /\ \A i \in 1 .. period : i \in 1 .. n /\ i <= period
    BY <1>2
  <2>2. \A i \in 1 .. period : s[i] <= s[period]
    BY <2>1 DEF NoFall
  <2>3. First(s, period) <= s[period] * period /\ s[period] \in Int
    BY <2>1, <2>2, FirstNoMore
  <2>4. e[period] <= s[period]
    BY <1>1, <2>3, MulCancel
  <2> QED BY <1>2, <2>4
<1>4. ASSUME NEW i \in period + 1 .. n, i - 1 \in P PROVE i \in P
  <2>1. PICK q \in Int : e[i] = e[i - 1] + q /\ q * (period + 1) = (s[i] - e[i - 1]) * 2
    BY <1>1
  <2>2. i \in 1 .. n /\ i - 1 \in 1 .. n /\ i - 1 <= i /\ i \in period .. n
    BY <1>2
  <2>3. e[i - 1] <= s[i - 1] /\ s[i - 1] \in Int /\ s[i - 1] <= s[i] /\ e[i - 1] \in Int /\ s[i] \in Int
    <3>1. s[i - 1] <= s[i]
      BY <2>2 DEF NoFall
    <3>2. s[i - 1] \in Int /\ s[i] \in Int
      BY <2>2
    <3> QED BY <1>1, <1>4, <3>1, <3>2
  <2>4. e[i - 1] <= s[i] /\ period + 1 \in Nat /\ period + 1 >= 2
    BY <2>3
  <2>5. q <= s[i] - e[i - 1]
    BY <2>1, <2>3, <2>4, Towards
  <2>6. e[i] <= s[i]
    <3>1. \A a, b, d \in Int : d <= b - a => a + d <= b
      OBVIOUS
    <3>2. q \in Int /\ e[i - 1] \in Int /\ s[i] \in Int /\ e[i] = e[i - 1] + q
      BY <2>1, <2>3
    <3> QED BY <2>5, <3>1, <3>2
  <2> QED BY <2>2, <2>6
<1>5. period .. n \subseteq P
  <2> HIDE DEF P
  <2> QED BY <1>2, <1>3, <1>4, IndexInduction
<1> QED BY <1>2, <1>5 DEF e

\* It never lies under the mean of all the values it has seen.
LEMMA AverageOverMean ==
  ASSUME NEW s \in Seq(Int), NEW period \in Nat \ {0}, period <= Len(s), EvenEMA(s, period), NoFall(s)
  PROVE  \A i \in period .. Len(s) : First(s, i) <= EMA(s, period)[i] * i
<1> DEFINE e == EMA(s, period)
           n == Len(s)
           P == {i \in period .. n : First(s, i) <= e[i] * i}
<1>1. /\ e[period] \in Int /\ e[period] * period = First(s, period)
      /\ \A i \in period + 1 .. n :
           /\ e[i - 1] \in Int /\ s[i] \in Int
           /\ \E q \in Int : e[i] = e[i - 1] + q /\ q * (period + 1) = (s[i] - e[i - 1]) * 2
  BY EMAExactly
<1>2. \A i \in period .. n : e[i] \in Int /\ e[i] <= s[i]
  BY AverageUnderLast
<1>3. n \in Nat
  OBVIOUS
<1> HIDE DEF e
<1>4. period \in P
  <2>1. period \in 1 .. n
    BY <1>3
  <2>2. First(s, period) \in Int
    BY <2>1, FirstDef
  <2> QED BY <1>1, <1>3, <2>2
<1>5. ASSUME NEW i \in period + 1 .. n, i - 1 \in P PROVE i \in P
  <2> DEFINE f == e[i - 1]
             x == s[i]
             a == First(s, i - 1)
             b == First(s, i)
  <2>1. PICK q \in Int : e[i] = f + q /\ q * (period + 1) = (x - f) * 2
    BY <1>1
  <2>2. i \in 1 .. n /\ i - 1 \in 1 .. n /\ i - 1 <= i /\ i \in period .. n /\ i - 1 \in period .. n /\ i \in Nat
    BY <1>3
  <2>3. b = a + x /\ a \in Int
    <3>1. First(s, i) = First(s, i - 1) + s[i] /\ First(s, i - 1) \in Int
      BY <2>2, FirstNext, FirstDef
    <3> QED BY <3>1
  <2>4. f \in Int /\ x \in Int /\ f <= s[i - 1] /\ s[i - 1] \in Int /\ s[i - 1] <= s[i] /\ a <= f * (i - 1)
    <3>1. s[i - 1] <= s[i]
      BY <2>2 DEF NoFall
    <3>2. s[i - 1] \in Int /\ s[i] \in Int
      BY <2>2
    <3>3. e[i - 1] \in Int /\ e[i - 1] <= s[i - 1]
      BY <1>2, <2>2
    <3> QED BY <1>5, <3>1, <3>2, <3>3
  <2>5. f <= x
    BY <2>4
  <2> HIDE DEF f, x, a, b
  <2>6. 0 <= q
    <3>1. period + 1 \in Nat /\ period + 1 >= 2
      OBVIOUS
    <3> QED BY <2>1, <2>4, <2>5, <3>1, Towards
  <2>7. q * (period + 1) <= q * i
    <3>1. q \in Nat /\ period + 1 \in Int /\ i \in Int /\ period + 1 <= i
      BY <2>2, <2>6
    <3>2. (period + 1) * q <= i * q
      BY <3>1, MulNoLess
    <3>3. (period + 1) * q = q * (period + 1) /\ i * q = q * i
      BY <3>1
    <3> QED BY <3>2, <3>3
  <2>8. (f + q) * i = f * (i - 1) + f + q * i
    BY <2>2, <2>4
  <2> DEFINE u == f * (i - 1)
             v == q * i
             w == q * (period + 1)
             y == (f + q) * i
  <2>9. u \in Int /\ v \in Int /\ y \in Int /\ y = u + f + v /\ a <= u /\ w <= v /\ w = (x - f) * 2
    BY <2>1, <2>2, <2>4, <2>7, <2>8
  <2> HIDE DEF u, v, w, y
  <2>10. b <= y
    BY <2>3, <2>4, <2>5, <2>9
  <2> QED BY <2>1, <2>2, <2>10 DEF f, b, y
<1>6. period .. n \subseteq P
  <2> HIDE DEF P
  <2> QED BY <1>3, <1>4, <1>5, IndexInduction
<1> QED BY <1>6 DEF e

\* Of two steps towards the same value, that of the higher average with the shorter
\* period ends no lower.
LEMMA FasterStaysAbove ==
  ASSUME NEW f \in Int, NEW g \in Int, NEW x \in Int, g <= f, f <= x, NEW p \in Int, NEW q \in Int,
         NEW a \in Nat, NEW b \in Nat, 2 <= a, a <= b, q * a = (x - f) * 2, p * b = (x - g) * 2
  PROVE  g + p <= f + q
<1>1. 0 <= q
  BY Towards
<1>2. q * a <= q * b
  <2>1. q \in Nat /\ a * q <= b * q
    BY <1>1, MulNoLess
  <2>2. a * q = q * a /\ b * q = q * b
    OBVIOUS
  <2> QED BY <2>1, <2>2
<1> DEFINE d == p - q
           w == f - g
<1>3. d * b = p * b - q * b
  OBVIOUS
<1>4. d * b <= w * 2
  <2> DEFINE y == p * b
             z == q * b
             v == q * a
  <2>1. y \in Int /\ z \in Int /\ v \in Int /\ v <= z /\ y = (x - g) * 2 /\ v = (x - f) * 2
    BY <1>2
  <2> HIDE DEF y, z, v
  <2>2. y - z <= (f - g) * 2
    BY <2>1
  <2> QED BY <1>3, <2>2 DEF y, z
<1>5. w * 2 <= w * b
  <2>1. w \in Nat /\ 2 * w <= b * w
    <3>1. w \in Nat
      OBVIOUS
    <3> HIDE DEF w
    <3>2. 2 <= b
      OBVIOUS
    <3> QED BY <3>1, <3>2, MulNoLess
  <2> HIDE DEF w
  <2>2. 2 * w = w * 2 /\ b * w = w * b
    BY <2>1
  <2> QED BY <2>1, <2>2
<1>6. d <= w
  <2>1. d \in Int /\ w \in Int /\ b \in Nat \ {0}
    OBVIOUS
  <2> HIDE DEF d, w
  <2>2. d * b \in Int /\ w * b \in Int /\ w * 2 \in Int
    BY <2>1
  <2>3. d * b <= w * b
    BY <1>4, <1>5, <2>2
  <2> QED BY <2>1, <2>3, MulCancel
<1> QED BY <1>6

LEMMA FastOverSlow ==
  ASSUME NEW s \in Seq(Int), Slow <= Len(s), EvenEMA(s, Fast), EvenEMA(s, Slow), NoFall(s)
  PROVE  \A i \in Slow .. Len(s) : EMA(s, Slow)[i] <= EMA(s, Fast)[i]
<1> DEFINE f == EMA(s, Fast)
           g == EMA(s, Slow)
           n == Len(s)
           P == {i \in Slow .. n : g[i] <= f[i]}
<1>1. Fast \in Nat \ {0} /\ Slow \in Nat \ {0} /\ Fast <= Slow /\ n \in Nat /\ Fast <= n /\ Slow <= n
  BY IndicatorAssumption
<1>2. \A i \in Fast .. n : f[i] \in Int /\ f[i] <= s[i] /\ First(s, i) <= f[i] * i
  BY <1>1, AverageUnderLast, AverageOverMean
<1>3. /\ g[Slow] \in Int /\ g[Slow] * Slow = First(s, Slow)
      /\ \A i \in Slow + 1 .. n :
           /\ g[i - 1] \in Int /\ s[i] \in Int
           /\ \E p \in Int : g[i] = g[i - 1] + p /\ p * (Slow + 1) = (s[i] - g[i - 1]) * 2
  BY <1>1, EMAExactly
<1>4. \A i \in Fast + 1 .. n : \E q \in Int : f[i] = f[i - 1] + q /\ q * (Fast + 1) = (s[i] - f[i - 1]) * 2
  BY <1>1, EMAExactly
<1> HIDE DEF f, g
<1>5. Slow \in P
  <2>1. Slow \in Fast .. n
    BY <1>1
  <2>2. g[Slow] * Slow <= f[Slow] * Slow /\ f[Slow] \in Int
    BY <1>2, <1>3, <2>1
  <2>3. g[Slow] <= f[Slow]
    BY <1>1, <1>3, <2>2, MulCancel
  <2> QED BY <1>1, <2>3
<1>6. ASSUME NEW i \in Slow + 1 .. n, i - 1 \in P PROVE i \in P
  <2>1. i \in Fast + 1 .. n /\ i - 1 \in Fast .. n /\ i \in 1 .. n /\ i - 1 \in 1 .. n /\ i - 1 <= i /\ i \in Slow .. n
    BY <1>1
  <2>2. PICK p \in Int : g[i] = g[i - 1] + p /\ p * (Slow + 1) = (s[i] - g[i - 1]) * 2
    BY <1>3
  <2>3. PICK q \in Int : f[i] = f[i - 1] + q /\ q * (Fast + 1) = (s[i] - f[i - 1]) * 2
    BY <1>4, <2>1
  <2>4. f[i - 1] \in Int /\ g[i - 1] \in Int /\ s[i] \in Int /\ g[i - 1] <= f[i - 1] /\ f[i - 1] <= s[i]
    <3>1. s[i - 1] <= s[i] /\ s[i - 1] \in Int /\ s[i] \in Int
      BY <2>1 DEF NoFall
    <3>2. f[i - 1] \in Int /\ f[i - 1] <= s[i - 1]
      BY <1>2, <2>1
    <3>3. g[i - 1] \in Int /\ g[i - 1] <= f[i - 1]
      BY <1>3, <1>6
    <3> QED BY <3>1, <3>2, <3>3
  <2>5. Fast + 1 \in Nat /\ Slow + 1 \in Nat /\ 2 <= Fast + 1 /\ Fast + 1 <= Slow + 1
    BY <1>1
  <2> DEFINE a == Fast + 1
             b == Slow + 1
             v == f[i - 1]
             w == g[i - 1]
             x == s[i]
  <2>6. /\ v \in Int /\ w \in Int /\ x \in Int /\ w <= v /\ v <= x
        /\ a \in Nat /\ b \in Nat /\ 2 <= a /\ a <= b
        /\ q * a = (x - v) * 2 /\ p * b = (x - w) * 2 /\ f[i] = v + q /\ g[i] = w + p
    BY <2>2, <2>3, <2>4, <2>5
  <2> HIDE DEF a, b, v, w, x
  <2>7. w + p <= v + q
    BY <2>6, FasterStaysAbove
  <2>8. g[i] <= f[i]
    BY <2>6, <2>7
  <2> QED BY <2>1, <2>8
<1>7. Slow .. n \subseteq P
  <2> HIDE DEF P
  <2> QED BY <1>1, <1>5, <1>6, IndexInduction
<1> QED BY <1>7 DEF f, g

LEMMA RisingIsNoFall ==
  ASSUME NEW s \in Seq(Int), \A i \in 1 .. Len(s) - 1 : s[i] <= s[i + 1]
  PROVE  NoFall(s)
<1> DEFINE n == Len(s)
<1>1. n \in Nat /\ \A i \in 1 .. n : s[i] \in Int
  OBVIOUS
<1>2. ASSUME NEW k \in 1 .. n PROVE \A j \in k .. n : s[k] <= s[j]
  <2> DEFINE P == {j \in k .. n : s[k] <= s[j]}
  <2>1. k \in P
    BY <1>1
  <2>2. ASSUME NEW j \in k + 1 .. n, j - 1 \in P PROVE j \in P
    <3>1. j \in 1 .. n /\ j - 1 \in 1 .. n - 1 /\ j - 1 \in 1 .. n /\ (j - 1) + 1 = j /\ j \in k .. n
      BY <1>1
    <3>2. s[j - 1] <= s[(j - 1) + 1]
      BY <3>1
    <3>3. s[k] <= s[j - 1] /\ s[j - 1] <= s[j]
      BY <2>2, <3>1, <3>2
    <3>4. s[k] <= s[j]
      BY <1>1, <3>1, <3>3
    <3> QED BY <3>1, <3>4
  <2>3. k .. n \subseteq P
    <3>1. k \in Nat
      OBVIOUS
    <3> HIDE DEF P
    <3> QED BY <1>1, <2>1, <2>2, <3>1, IndexInduction
  <2> QED BY <2>3
<1> SUFFICES ASSUME NEW i \in 1 .. n, NEW j \in 1 .. n, i <= j PROVE s[i] <= s[j]
  BY DEF NoFall
<1>3. j \in i .. n
  OBVIOUS
<1> QED BY <1>2, <1>3

\* "For steady uptrend, MACD should be positive" (indicators_test.go:76): for any
\* prices and periods, no MACD of a series that does not fall is negative.
THEOREM UptrendIsPositive == SignalSpec => []UptrendMACD
<1>1. prices \in Seq(Closing) /\ Len(prices) <= MaxDays => UptrendMACD
  <2> SUFFICES ASSUME prices \in Seq(Closing), Len(prices) <= MaxDays, HasMACD(prices), Rising
               PROVE  MACD(prices) >= 0
    BY DEF UptrendMACD
  <2>1. Fast \in Nat \ {0} /\ Slow \in Nat \ {0} /\ Fast <= Slow /\ Slow <= Len(prices)
    BY IndicatorAssumption DEF HasMACD
  <2>2. prices \in Seq(Int) /\ Len(prices) \in Nat
    <3>1. Closing \subseteq Int
      BY ClosingType
    <3> QED BY <3>1, WiderSeq
  <2>3. prices \in Series
    <3>1. prices # <<>>
      BY <2>1
    <3> QED BY <3>1, InSeries
  <2>4. EvenEMA(prices, Fast) /\ EvenEMA(prices, Slow)
    BY <2>3, UnitAssumption
  <2>5. NoFall(prices)
    BY <2>2, RisingIsNoFall DEF Rising
  <2>6. Len(prices) \in Slow .. Len(prices)
    BY <2>1, <2>2
  <2>7. CalcEMA(prices, Slow) <= CalcEMA(prices, Fast)
    BY <2>1, <2>2, <2>4, <2>5, <2>6, FastOverSlow DEF CalcEMA
  <2>8. CalcEMA(prices, Slow) \in Int /\ CalcEMA(prices, Fast) \in Int
    BY <2>1, <2>2, EMAType
  <2> QED BY <2>7, <2>8 DEF MACD
<1> QED BY <1>1, PricesAreSeries, PTL

-----------------------------------------------------------------------------
(* A series and its multiple.                                               *)

Tripled(s, t) == Len(t) = Len(s) /\ \A i \in 1 .. Len(s) : t[i] = 3 * s[i]

LEMMA DivOfMul ==
  ASSUME NEW q \in Int, NEW k \in Nat \ {0}
  PROVE  (q * k) \div k = q
<1> DEFINE x == q * k
           y == x \div k
<1>1. x \in Int
  OBVIOUS
<1>2. y \in Int /\ y * k <= x /\ x < (y + 1) * k
  <2> HIDE DEF x
  <2> QED BY <1>1
<1> HIDE DEF y
<1>3. y <= q
  BY <1>2, MulCancel
<1>4. q <= y
  <2> SUFFICES ASSUME y + 1 <= q PROVE FALSE
    BY <1>2
  <2>1. y + 1 \in Int /\ (y + 1) * k <= q * k /\ (y + 1) * k \in Int
    BY <1>2, MulNoLess
  <2> DEFINE z == (y + 1) * k
  <2>2. z \in Int /\ z <= x /\ x < z
    BY <1>2, <2>1
  <2> HIDE DEF z, x
  <2> QED BY <1>1, <2>2
<1>5. y = q
  BY <1>2, <1>3, <1>4
<1> QED BY <1>5 DEF y

LEMMA DivScaled ==
  ASSUME NEW x \in Int, NEW k \in Nat \ {0}, x % k = 0
  PROVE  x \div k \in Int /\ (3 * x) \div k = 3 * (x \div k)
<1> DEFINE q == x \div k
           p == 3 * q
<1>1. q \in Int /\ q * k = x
  BY Exactly
<1> HIDE DEF q
<1>2. p \in Int /\ p * k = 3 * x
  <2>1. p \in Int /\ p * k = 3 * (q * k)
    BY <1>1
  <2> HIDE DEF p
  <2> QED BY <1>1, <2>1
<1> HIDE DEF p
<1>3. (p * k) \div k = p
  BY <1>2, DivOfMul
<1> QED BY <1>1, <1>2, <1>3 DEF q, p

LEMMA TotalScaled ==
  ASSUME NEW s \in Seq(Int), NEW t \in Seq(Int), Tripled(s, t)
  PROVE  Total(s) \in Int /\ Total(t) = 3 * Total(s)
<1>1. Len(s) \in Nat /\ s \in [1 .. Len(s) -> Int] /\ t \in [1 .. Len(s) -> Int]
  BY DEF Tripled
<1>2. IsFiniteSet(1 .. Len(s))
  BY <1>1, UpTo
<1> QED BY <1>1, <1>2, SumScaled DEF Total, Tripled

LEMMA PieceTripled ==
  ASSUME NEW s \in Seq(Int), NEW t \in Seq(Int), Tripled(s, t),
         NEW m \in 1 .. Len(s), NEW n \in 1 .. Len(s), m <= n
  PROVE  /\ SubSeq(s, m, n) \in Seq(Int) /\ SubSeq(t, m, n) \in Seq(Int)
         /\ Len(SubSeq(s, m, n)) = n - m + 1 /\ Tripled(SubSeq(s, m, n), SubSeq(t, m, n))
<1> DEFINE p == SubSeq(s, m, n)
           q == SubSeq(t, m, n)
           k == n - m + 1
<1>1. m \in Nat \ {0} /\ n \in Nat /\ n <= Len(s) /\ n <= Len(t)
  BY DEF Tripled
<1>2. /\ p \in Seq(Int) /\ Len(p) = IF m <= n THEN k ELSE 0
      /\ \A i \in 1 .. k : p[i] = s[m + i - 1] /\ m + i - 1 \in 1 .. Len(s)
  BY <1>1, Piece
<1>3. /\ q \in Seq(Int) /\ Len(q) = IF m <= n THEN k ELSE 0
      /\ \A i \in 1 .. k : q[i] = t[m + i - 1]
  BY <1>1, Piece
<1> HIDE DEF p, q, k
<1>4. Tripled(p, q)
  BY <1>2, <1>3 DEF Tripled
<1> QED BY <1>2, <1>3, <1>4 DEF p, q, k

LEMMA SeedScaled ==
  ASSUME NEW s \in Seq(Int), NEW t \in Seq(Int), Tripled(s, t),
         NEW period \in Nat \ {0}, period <= Len(s), EvenSeed(s, period)
  PROVE  Seed(s, period) \in Int /\ Seed(t, period) = 3 * Seed(s, period)
<1> DEFINE x == Total(SubSeq(s, 1, period))
           y == Total(SubSeq(t, 1, period))
<1>1. 1 \in 1 .. Len(s) /\ period \in 1 .. Len(s) /\ 1 <= period
  OBVIOUS
<1>2. x \in Int /\ y = 3 * x
  BY <1>1, PieceTripled, TotalScaled
<1>3. x % period = 0
  BY DEF EvenSeed
<1>4. Seed(s, period) = x \div period /\ Seed(t, period) = y \div period
  BY DEF Seed
<1> HIDE DEF x, y
<1>5. x \div period \in Int /\ (3 * x) \div period = 3 * (x \div period)
  BY <1>2, <1>3, DivScaled
<1> QED BY <1>2, <1>4, <1>5

LEMMA SMAScaled ==
  ASSUME NEW s \in Seq(Int), NEW t \in Seq(Int), Tripled(s, t),
         NEW period \in Nat \ {0}, period <= Len(s), EvenSMA(s, period)
  PROVE  CalcSMA(s, period) \in Int /\ CalcSMA(t, period) = 3 * CalcSMA(s, period)
<1> DEFINE m == Len(s) - period + 1
           x == Total(SubSeq(s, m, Len(s)))
           y == Total(SubSeq(t, m, Len(s)))
<1>1. m \in 1 .. Len(s) /\ Len(s) \in 1 .. Len(s) /\ m <= Len(s)
  OBVIOUS
<1>2. x \in Int /\ y = 3 * x
  <2> HIDE DEF m
  <2> QED BY <1>1, PieceTripled, TotalScaled
<1>3. x % period = 0
  BY DEF EvenSMA
<1>4. CalcSMA(s, period) = x \div period /\ CalcSMA(t, period) = y \div period
  BY DEF CalcSMA, Tripled
<1> HIDE DEF x, y
<1>5. x \div period \in Int /\ (3 * x) \div period = 3 * (x \div period)
  BY <1>2, <1>3, DivScaled
<1> QED BY <1>2, <1>4, <1>5

LEMMA EMAScaled ==
  ASSUME NEW s \in Seq(Int), NEW t \in Seq(Int), Tripled(s, t),
         NEW period \in Nat \ {0}, period <= Len(s), EvenEMA(s, period)
  PROVE  CalcEMA(s, period) \in Int /\ CalcEMA(t, period) = 3 * CalcEMA(s, period)
<1> DEFINE d == EMA(s, period)
           e == EMA(t, period)
           n == Len(s)
           P == {i \in period .. n : e[i] = 3 * d[i]}
<1>1. /\ EMARule(d, s, period) /\ d \in [period .. n -> Int]
      /\ EMARule(e, t, period) /\ e \in [period .. n -> Int]
      /\ n \in Nat /\ Len(t) = n /\ n \in period .. n
  BY EMADef DEF Tripled
<1>2. \A i \in period + 1 .. n : ((s[i] - d[i - 1]) * 2) % (period + 1) = 0
  BY DEF EvenEMA
<1>3. Seed(s, period) \in Int /\ Seed(t, period) = 3 * Seed(s, period)
  BY SeedScaled DEF EvenEMA
<1>4. CalcEMA(s, period) = d[n] /\ CalcEMA(t, period) = e[n]
  BY DEF CalcEMA, Tripled
<1> HIDE DEF d, e
<1>5. period \in P
  BY <1>1, <1>3 DEF EMARule
<1>6. ASSUME NEW i \in period + 1 .. n, i - 1 \in P PROVE i \in P
  <2> DEFINE x == (s[i] - d[i - 1]) * 2
             y == (t[i] - e[i - 1]) * 2
             k == period + 1
  <2>1. i \in period .. n /\ i - 1 \in period .. n /\ i # period /\ i \in 1 .. Len(s)
    BY <1>1
  <2>2. d[i - 1] \in Int /\ s[i] \in Int /\ e[i - 1] = 3 * d[i - 1] /\ t[i] = 3 * s[i]
    <3>1. d[i - 1] \in Int /\ e[i - 1] = 3 * d[i - 1]
      BY <1>1, <1>6, <2>1
    <3>2. s[i] \in Int /\ t[i] = 3 * s[i]
      BY <2>1 DEF Tripled
    <3> QED BY <3>1, <3>2
  <2>3. d[i] = d[i - 1] + x \div k /\ e[i] = e[i - 1] + y \div k
    BY <1>1, <2>1 DEF EMARule
  <2>4. x \in Int /\ y = 3 * x
    <3>1. \A v, w \in Int : (v - w) * 2 \in Int /\ (3 * v - 3 * w) * 2 = 3 * ((v - w) * 2)
      OBVIOUS
    <3> QED BY <2>2, <3>1
  <2>5. x % k = 0 /\ k \in Nat \ {0}
    BY <1>2
  <2> HIDE DEF x, y, k
  <2>6. x \div k \in Int /\ (3 * x) \div k = 3 * (x \div k)
    BY <2>4, <2>5, DivScaled
  <2>7. e[i] = 3 * d[i]
    <3> DEFINE q == x \div k
    <3>1. e[i - 1] = 3 * d[i - 1] /\ d[i] = d[i - 1] + q /\ e[i] = e[i - 1] + 3 * q
      BY <2>2, <2>3, <2>4, <2>6
    <3>2. d[i - 1] \in Int /\ q \in Int
      BY <2>2, <2>6
    <3> HIDE DEF q
    <3>3. \A v, w \in Int : 3 * v + 3 * w = 3 * (v + w)
      OBVIOUS
    <3> QED BY <3>1, <3>2, <3>3
  <2> QED BY <2>1, <2>7
<1>7. period .. n \subseteq P
  <2> HIDE DEF P
  <2> QED BY <1>1, <1>5, <1>6, IndexInduction
<1> QED BY <1>1, <1>4, <1>7

LEMMA SmoothedScaled ==
  ASSUME NEW v \in Seq(Int), NEW u \in Seq(Int), Tripled(v, u), RSIPeriod <= Len(v), EvenSmoothed(v)
  PROVE  Smoothed(u) = 3 * Smoothed(v)
<1> DEFINE d == Averages(v)
           e == Averages(u)
           n == Len(v)
           k == RSIPeriod
           P == {i \in k .. n : e[i] = 3 * d[i]}
<1>1. k \in Nat \ {0} /\ k <= n /\ n \in Nat /\ Len(u) = n /\ n \in k .. n
  BY IndicatorAssumption DEF Tripled
<1>2. /\ SmoothRule(d, v) /\ d \in [k .. n -> Int]
      /\ SmoothRule(e, u) /\ e \in [k .. n -> Int]
  BY <1>1, SmoothedDef
<1>3. \A i \in k + 1 .. n : (d[i - 1] * (k - 1) + v[i]) % k = 0
  BY DEF EvenSmoothed
<1>4. Seed(v, k) \in Int /\ Seed(u, k) = 3 * Seed(v, k)
  BY <1>1, SeedScaled DEF EvenSmoothed
<1>5. Smoothed(v) = d[n] /\ Smoothed(u) = e[n]
  BY DEF Smoothed, Tripled
<1> HIDE DEF d, e
<1>6. k \in P
  BY <1>1, <1>2, <1>4 DEF SmoothRule
<1>7. ASSUME NEW i \in k + 1 .. n, i - 1 \in P PROVE i \in P
  <2> DEFINE a == d[i - 1]
             x == a * (k - 1) + v[i]
             y == e[i - 1] * (k - 1) + u[i]
  <2>1. i \in k .. n /\ i - 1 \in k .. n /\ i # k /\ i \in 1 .. Len(v)
    BY <1>1
  <2>2. a \in Int /\ v[i] \in Int /\ e[i - 1] = 3 * a /\ u[i] = 3 * v[i]
    <3>1. a \in Int /\ e[i - 1] = 3 * a
      BY <1>2, <1>7, <2>1
    <3>2. v[i] \in Int /\ u[i] = 3 * v[i]
      BY <2>1 DEF Tripled
    <3> QED BY <3>1, <3>2
  <2>3. d[i] = x \div k /\ e[i] = y \div k
    BY <1>2, <2>1 DEF SmoothRule
  <2>4. x % k = 0
    BY <1>3
  <2> HIDE DEF a, k
  <2>5. x \in Int /\ y = 3 * x
    <3> DEFINE z == a * (k - 1)
    <3>1. z \in Int /\ e[i - 1] * (k - 1) = 3 * z
      <4>1. (3 * a) * (k - 1) = 3 * (a * (k - 1)) /\ a * (k - 1) \in Int
        BY <1>1, <2>2
      <4> QED BY <2>2, <4>1
    <3> HIDE DEF z
    <3>2. x = z + v[i]
      BY DEF z
    <3>3. \A p, q \in Int : p + q \in Int /\ 3 * p + 3 * q = 3 * (p + q)
      OBVIOUS
    <3> QED BY <2>2, <3>1, <3>2, <3>3
  <2> HIDE DEF x, y
  <2>6. x \div k \in Int /\ (3 * x) \div k = 3 * (x \div k)
    BY <1>1, <2>4, <2>5, DivScaled
  <2> QED BY <2>1, <2>3, <2>5, <2>6
<1>8. k .. n \subseteq P
  <2> HIDE DEF P, k
  <2> QED BY <1>1, <1>6, <1>7, IndexInduction
<1> QED BY <1>1, <1>5, <1>8

LEMMA RSIScaled ==
  ASSUME NEW s \in Seq(Int), NEW t \in Seq(Int), Tripled(s, t), HasRSI(s),
         EvenSmoothed(Gains(s)), EvenSmoothed(Losses(s))
  PROVE  /\ AvgGain(s) \in Nat /\ AvgGain(t) = 3 * AvgGain(s)
         /\ AvgLoss(s) \in Nat /\ AvgLoss(t) = 3 * AvgLoss(s)
<1> DEFINE n == Len(s) - 1
<1>1. HasRSI(t) /\ n \in Nat /\ Len(t) - 1 = n
  BY IndicatorAssumption DEF HasRSI, Tripled
<1>2. \A x \in Int : Gain(3 * x) = 3 * Gain(x) /\ Loss(3 * x) = 3 * Loss(x)
  BY DEF Gain, Loss
<1>3. ASSUME NEW i \in 1 .. n PROVE Gains(t)[i] = 3 * Gains(s)[i] /\ Losses(t)[i] = 3 * Losses(s)[i]
  <2> DEFINE x == s[i + 1] - s[i]
             y == t[i + 1] - t[i]
  <2>1. s[i] \in Int /\ s[i + 1] \in Int /\ Gains(s)[i] = Gain(x) /\ Losses(s)[i] = Loss(x)
    BY GainsType
  <2>2. Gains(t)[i] = Gain(y) /\ Losses(t)[i] = Loss(y)
    BY <1>1, GainsType
  <2>3. t[i] = 3 * s[i] /\ t[i + 1] = 3 * s[i + 1]
    <3>1. i \in 1 .. Len(s) /\ i + 1 \in 1 .. Len(s)
      OBVIOUS
    <3> QED BY <3>1 DEF Tripled
  <2>4. x \in Int /\ y = 3 * x
    BY <2>1, <2>3
  <2> HIDE DEF x, y
  <2> QED BY <1>2, <2>1, <2>2, <2>4
<1>4. /\ Gains(s) \in Seq(Int) /\ Losses(s) \in Seq(Int) /\ Gains(t) \in Seq(Int) /\ Losses(t) \in Seq(Int)
      /\ Len(Gains(s)) = n /\ Len(Losses(s)) = n /\ Len(Gains(t)) = n /\ Len(Losses(t)) = n /\ RSIPeriod <= n
  BY <1>1, GainsType
<1>5. Tripled(Gains(s), Gains(t)) /\ Tripled(Losses(s), Losses(t))
  BY <1>3, <1>4 DEF Tripled
<1>6. Smoothed(Gains(t)) = 3 * Smoothed(Gains(s)) /\ Smoothed(Losses(t)) = 3 * Smoothed(Losses(s))
  BY <1>4, <1>5, SmoothedScaled
<1>7. AvgGain(s) \in Nat /\ AvgLoss(s) \in Nat
  BY AvgType
<1> QED BY <1>6, <1>7 DEF AvgGain, AvgLoss

LEMMA MACDScaled ==
  ASSUME NEW s \in Seq(Int), NEW t \in Seq(Int), Tripled(s, t), HasMACD(s), EvenEMA(s, Fast), EvenEMA(s, Slow)
  PROVE  MACD(s) \in Int /\ MACD(t) = 3 * MACD(s)
<1>1. Fast \in Nat \ {0} /\ Slow \in Nat \ {0} /\ Fast <= Len(s) /\ Slow <= Len(s)
  BY IndicatorAssumption DEF HasMACD
<1>2. /\ CalcEMA(s, Fast) \in Int /\ CalcEMA(t, Fast) = 3 * CalcEMA(s, Fast)
      /\ CalcEMA(s, Slow) \in Int /\ CalcEMA(t, Slow) = 3 * CalcEMA(s, Slow)
  BY <1>1, EMAScaled
<1> QED BY <1>2 DEF MACD

LEMMA Prefix ==
  ASSUME NEW s \in Seq(Closing), Len(s) <= MaxDays, NEW n \in 1 .. Len(s)
  PROVE  SubSeq(s, 1, n) \in Series
<1> DEFINE p == SubSeq(s, 1, n)
<1>1. n \in Nat /\ n <= Len(s) /\ 1 <= n /\ n - 1 + 1 = n /\ 1 \in Nat \ {0} /\ n <= MaxDays
  BY IndicatorAssumption
<1>2. p \in Seq(Closing) /\ Len(p) = IF 1 <= n THEN n - 1 + 1 ELSE 0
  BY <1>1, Piece
<1> HIDE DEF p
<1>3. p # <<>>
  BY <1>1, <1>2
<1>4. p \in Series
  BY <1>1, <1>2, <1>3, InSeries
<1> QED BY <1>4 DEF p

LEMMA HistScaled ==
  ASSUME NEW s \in Seq(Closing), Len(s) <= MaxDays, NEW t \in Seq(Int), Tripled(s, t), HasHist(s)
  PROVE  Hist(s) \in Int /\ Hist(t) = 3 * Hist(s)
<1> DEFINE n == Len(s) - Slow + 1
           v == MACDValues(s)
           u == MACDValues(t)
<1>1. /\ n \in Nat /\ Slow \in Nat \ {0} /\ Slow <= Len(s) /\ SigPeriod \in Nat \ {0} /\ HasMACD(s)
      /\ s # <<>> /\ Len(s) \in Nat /\ Len(t) = Len(s)
  BY IndicatorAssumption DEF HasHist, HasMACD, Tripled
<1>2. s \in Seq(Int)
  <2>1. Closing \subseteq Int
    BY ClosingType
  <2> QED BY <2>1, WiderSeq
<1>3. ASSUME NEW i \in 1 .. n
      PROVE  /\ MACD(SubSeq(s, 1, i + Slow - 1)) \in Int
             /\ MACD(SubSeq(t, 1, i + Slow - 1)) = 3 * MACD(SubSeq(s, 1, i + Slow - 1))
  <2> DEFINE m == i + Slow - 1
             p == SubSeq(s, 1, m)
             q == SubSeq(t, 1, m)
  <2>1. 1 \in 1 .. Len(s) /\ m \in 1 .. Len(s) /\ 1 <= m /\ Slow <= m /\ m - 1 + 1 = m
    BY <1>1
  <2> HIDE DEF m
  <2>2. p \in Series
    BY <2>1, Prefix
  <2>3. p \in Seq(Int) /\ q \in Seq(Int) /\ Len(p) = m /\ Tripled(p, q)
    BY <1>2, <2>1, PieceTripled
  <2> HIDE DEF p, q
  <2>4. HasMACD(p) /\ EvenEMA(p, Fast) /\ EvenEMA(p, Slow)
    BY <2>1, <2>2, <2>3, UnitAssumption DEF HasMACD
  <2>5. MACD(p) \in Int /\ MACD(q) = 3 * MACD(p)
    BY <2>3, <2>4, MACDScaled
  <2> QED BY <2>5 DEF p, q, m
<1>4. /\ v = [i \in 1 .. n |-> MACD(SubSeq(s, 1, i + Slow - 1))]
      /\ u = [i \in 1 .. n |-> MACD(SubSeq(t, 1, i + Slow - 1))]
  BY <1>1 DEF MACDValues
<1>5. ASSUME NEW i \in 1 .. n PROVE MACD(SubSeq(t, 1, i + Slow - 1)) \in Int
  BY <1>3
<1>6. SigPeriod <= Len(v) /\ EvenEMA(v, SigPeriod)
  <2>1. s \in Series
    BY <1>1, InSeries
  <2> QED BY <2>1, UnitAssumption DEF HasHist
<1>7. MACD(s) \in Int /\ MACD(t) = 3 * MACD(s)
  <2>1. s \in Series
    BY <1>1, InSeries
  <2>2. EvenEMA(s, Fast) /\ EvenEMA(s, Slow)
    BY <2>1, UnitAssumption
  <2> QED BY <1>1, <1>2, <2>2, MACDScaled
<1> HIDE DEF v, u, n
<1>8. v \in Seq(Int) /\ u \in Seq(Int) /\ Len(v) = n /\ Len(u) = n
  <2>1. v \in [1 .. n -> Int] /\ u \in [1 .. n -> Int]
    BY <1>3, <1>4, <1>5
  <2> QED BY <1>1, <2>1
<1>9. Tripled(v, u)
  BY <1>3, <1>4, <1>8 DEF Tripled
<1>10. CalcEMA(v, SigPeriod) \in Int /\ CalcEMA(u, SigPeriod) = 3 * CalcEMA(v, SigPeriod)
  BY <1>1, <1>6, <1>8, <1>9, EMAScaled
<1> QED BY <1>7, <1>10 DEF Hist, SignalLine, v, u

-----------------------------------------------------------------------------
(* The signal of a multiple.                                                *)

LEMMA VotesScaled ==
  ASSUME NEW s \in Seq(Closing), Len(s) <= MaxDays, s # <<>>, NEW t \in Seq(Int), Tripled(s, t)
  PROVE  /\ HasRSI(t) = HasRSI(s)
         /\ \A x \in {30, 40, 70, 80} : HasRSI(s) => RSIBelow(t, x) = RSIBelow(s, x) /\ RSIAbove(t, x) = RSIAbove(s, x)
         /\ AboveMA(t) = AboveMA(s) /\ BelowMA(t) = BelowMA(s) /\ Cross(t) = Cross(s) /\ NoCross(t) = NoCross(s)
         /\ HasHist(t) = HasHist(s)
         /\ HasHist(s) => (Hist(t) > 0) = (Hist(s) > 0) /\ (Hist(t) <= 0) = (Hist(s) <= 0)
<1>1. s \in Series
  BY InSeries
<1>2. s \in Seq(Int) /\ Len(s) \in Nat /\ Len(t) = Len(s)
  <2>1. Closing \subseteq Int
    BY ClosingType
  <2> QED BY <2>1, WiderSeq DEF Tripled
<1>3. HasRSI(t) = HasRSI(s) /\ HasHist(t) = HasHist(s)
  <2>1. HasRSI(t) = HasRSI(s) /\ HasMACD(t) = HasMACD(s)
    BY <1>2 DEF HasRSI, HasMACD
  <2>2. ASSUME HasMACD(s) PROVE Len(MACDValues(t)) = Len(MACDValues(s))
    <3> DEFINE n == Len(s) - Slow + 1
               f(r) == [i \in 1 .. n |-> MACD(SubSeq(r, 1, i + Slow - 1))]
    <3>1. n \in Nat /\ MACDValues(t) = f(t) /\ MACDValues(s) = f(s)
      BY <1>2, <2>2, IndicatorAssumption DEF HasMACD, MACDValues
    <3> HIDE DEF n
    <3>2. Len(f(t)) = n /\ Len(f(s)) = n
      BY <3>1
    <3> QED BY <3>1, <3>2
  <2> QED BY <2>1, <2>2 DEF HasHist
<1>4. ASSUME HasRSI(s), NEW x \in {30, 40, 70, 80}
      PROVE  RSIBelow(t, x) = RSIBelow(s, x) /\ RSIAbove(t, x) = RSIAbove(s, x)
  <2> DEFINE g == AvgGain(s)
             l == AvgLoss(s)
             q == g + l
  <2>1. g \in Nat /\ l \in Nat /\ AvgGain(t) = 3 * g /\ AvgLoss(t) = 3 * l
    BY <1>1, <1>2, <1>4, UnitAssumption, RSIScaled
  <2>2. /\ CalcRSI(s) = IF l = 0 THEN <<100, 1>> ELSE <<100 * g, q>>
        /\ CalcRSI(t) = IF 3 * l = 0 THEN <<100, 1>> ELSE <<100 * (3 * g), 3 * g + 3 * l>>
    BY <2>1 DEF CalcRSI
  <2>3. (3 * l = 0) = (l = 0) /\ 3 * g + 3 * l = 3 * q /\ 100 * (3 * g) = 3 * (100 * g) /\ q \in Nat
    BY <2>1
  <2> HIDE DEF g, l, q
  <2>4. CASE l = 0
    <3>1. CalcRSI(t) = CalcRSI(s)
      BY <2>2, <2>3, <2>4
    <3> QED BY <3>1 DEF RSIBelow, RSIAbove
  <2>5. CASE l # 0
    <3> DEFINE n == 100 * g
    <3>1. /\ CalcRSI(s)[1] = n /\ CalcRSI(s)[2] = q
          /\ CalcRSI(t)[1] = 3 * n /\ CalcRSI(t)[2] = 3 * q
      BY <2>2, <2>3, <2>5
    <3>2. n \in Nat
      BY <2>1
    <3> HIDE DEF n
    <3>3. (3 * n < x * (3 * q)) = (n < x * q) /\ (3 * n > x * (3 * q)) = (n > x * q)
      BY <1>4, <2>3, <3>2
    <3> QED BY <3>1, <3>3 DEF RSIBelow, RSIAbove, Under, Over
  <2> QED BY <2>4, <2>5
<1>5. Short \in Nat \ {0} /\ Long \in Nat \ {0} /\ Short <= Long
  BY IndicatorAssumption
<1>6. /\ Len(s) >= Short => CalcSMA(s, Short) \in Int /\ CalcSMA(t, Short) = 3 * CalcSMA(s, Short)
      /\ Len(s) >= Long => CalcSMA(s, Long) \in Int /\ CalcSMA(t, Long) = 3 * CalcSMA(s, Long)
  BY <1>1, <1>2, <1>5, UnitAssumption, SMAScaled
<1>7. Last(s) \in Int /\ Last(t) = 3 * Last(s)
  <2>1. Len(s) \in 1 .. Len(s)
    BY <1>2
  <2> QED BY <1>2, <2>1 DEF Last, Tripled
<1>8. AboveMA(t) = AboveMA(s) /\ BelowMA(t) = BelowMA(s)
  <2>1. CASE Len(s) >= Short
    <3> DEFINE x == Last(s)
               m == CalcSMA(s, Short)
    <3>1. x \in Int /\ m \in Int /\ Last(t) = 3 * x /\ CalcSMA(t, Short) = 3 * m
      BY <1>6, <1>7, <2>1
    <3>2. /\ AboveMA(s) = (x > 0 /\ 100 * x > 102 * m)
          /\ BelowMA(s) = (x > 0 /\ 100 * x < 98 * m)
          /\ AboveMA(t) = (3 * x > 0 /\ 100 * (3 * x) > 102 * (3 * m))
          /\ BelowMA(t) = (3 * x > 0 /\ 100 * (3 * x) < 98 * (3 * m))
      BY <1>2, <2>1, <3>1 DEF AboveMA, BelowMA
    <3> HIDE DEF x, m
    <3> QED BY <3>1, <3>2
  <2>2. CASE ~(Len(s) >= Short)
    BY <1>2, <2>2 DEF AboveMA, BelowMA
  <2> QED BY <2>1, <2>2
<1>9. Cross(t) = Cross(s) /\ NoCross(t) = NoCross(s)
  <2>1. Cross(t) = Cross(s)
    <3>1. \A v, w \in Int : (3 * v > 3 * w) = (v > w)
      OBVIOUS
    <3>2. CASE Len(s) >= Long
      <4>1. Len(s) >= Short
        BY <1>2, <1>5, <3>2
      <4>2. (CalcSMA(t, Short) > CalcSMA(t, Long)) = (CalcSMA(s, Short) > CalcSMA(s, Long))
        BY <1>6, <3>1, <3>2, <4>1
      <4> QED BY <1>2, <3>2, <4>2 DEF Cross
    <3>3. CASE ~(Len(s) >= Long)
      BY <1>2, <3>3 DEF Cross
    <3> QED BY <3>2, <3>3
  <2> QED BY <1>2, <2>1 DEF NoCross
<1>10. HasHist(s) => (Hist(t) > 0) = (Hist(s) > 0) /\ (Hist(t) <= 0) = (Hist(s) <= 0)
  <2>1. ASSUME HasHist(s) PROVE Hist(s) \in Int /\ Hist(t) = 3 * Hist(s)
    BY <2>1, HistScaled
  <2> QED BY <2>1
<1> QED BY <1>3, <1>4, <1>8, <1>9, <1>10

\* A split of the shares changes no signal, whatever the prices and the periods, thresholds
\* being relative to the prices.
THEOREM SplitKeepsAnySignal == SignalSpec => []SplitKeepsSignal
<1>1. prices \in Seq(Closing) /\ Len(prices) <= MaxDays => SplitKeepsSignal
  <2> SUFFICES ASSUME prices \in Seq(Closing), Len(prices) <= MaxDays PROVE SplitKeepsSignal
    OBVIOUS
  <2> DEFINE t == [d \in DOMAIN prices |-> 3 * prices[d]]
  <2>1. prices \in Seq(Int) /\ Len(prices) \in Nat
    <3>1. Closing \subseteq Int
      BY ClosingType
    <3> QED BY <3>1, WiderSeq
  <2>2. t \in Seq(Int) /\ Tripled(prices, t)
    <3>1. t = [i \in 1 .. Len(prices) |-> 3 * prices[i]] /\ \A i \in 1 .. Len(prices) : 3 * prices[i] \in Int
      BY <2>1
    <3> HIDE DEF t
    <3> QED BY <2>1, <3>1 DEF Tripled
  <2>3. CASE prices = <<>>
    <3>1. t = prices
      BY <2>2, <2>3 DEF Tripled
    <3> QED BY <3>1 DEF SplitKeepsSignal
  <2>4. CASE prices # <<>>
    <3> HIDE DEF t
    <3>1. /\ HasRSI(t) = HasRSI(prices)
          /\ \A x \in {30, 40, 70, 80} :
               HasRSI(prices) => RSIBelow(t, x) = RSIBelow(prices, x) /\ RSIAbove(t, x) = RSIAbove(prices, x)
          /\ AboveMA(t) = AboveMA(prices) /\ BelowMA(t) = BelowMA(prices)
          /\ Cross(t) = Cross(prices) /\ NoCross(t) = NoCross(prices) /\ HasHist(t) = HasHist(prices)
          /\ HasHist(prices) => (Hist(t) > 0) = (Hist(prices) > 0) /\ (Hist(t) <= 0) = (Hist(prices) <= 0)
      BY <2>2, <2>4, VotesScaled
    <3>2. BuyScore(t) = BuyScore(prices) /\ SellScore(t) = SellScore(prices)
      <4>1. \A x \in {30, 40} : One(HasRSI(t) /\ RSIBelow(t, x)) = One(HasRSI(prices) /\ RSIBelow(prices, x))
        BY <3>1 DEF One
      <4>2. \A x \in {70, 80} : One(HasRSI(t) /\ RSIAbove(t, x)) = One(HasRSI(prices) /\ RSIAbove(prices, x))
        BY <3>1 DEF One
      <4>3. /\ One(HasHist(t) /\ Hist(t) > 0) = One(HasHist(prices) /\ Hist(prices) > 0)
            /\ One(HasHist(t) /\ Hist(t) <= 0) = One(HasHist(prices) /\ Hist(prices) <= 0)
        BY <3>1 DEF One
      <4>4. /\ One(AboveMA(t)) = One(AboveMA(prices)) /\ One(BelowMA(t)) = One(BelowMA(prices))
            /\ One(Cross(t)) = One(Cross(prices)) /\ One(NoCross(t)) = One(NoCross(prices))
        BY <3>1 DEF One
      <4> QED BY <4>1, <4>2, <4>3, <4>4 DEF BuyScore, SellScore
    <3>3. TechSignal(t) = TechSignal(prices)
      BY <3>2 DEF TechSignal
    <3> QED BY <3>3 DEF SplitKeepsSignal, t
  <2> QED BY <2>3, <2>4
<1> QED BY <1>1, PricesAreSeries, PTL

=============================================================================
