------------------------- MODULE StockProfileProofs -------------------------
(***************************************************************************)
(* Theorems about YahooCrumb, for any number of callers and of changes at  *)
(* Yahoo, and about StockProfile, whose requests are such callers: a page  *)
(* never loses a stored profile to somebody's failed refresh.              *)
(***************************************************************************)
EXTENDS StockProfile, TLAPS

-----------------------------------------------------------------------------
(* The crumb cache.                                                       *)

LEMMA InitType == Init => TypeOK
BY CrumbAssumption DEF Init, TypeOK

\* A step of one caller keeps the types and the discipline of the mutex.
LEMMA StepType ==
  ASSUME TypeOK, NEW c \in Callers, Call(c) \/ Step(c)
  PROVE  TypeOK'
<1> USE CrumbAssumption DEF TypeOK, Move, Return, Use
<1>1. CASE Call(c)
  BY <1>1 DEF Call
<1>2. CASE Lock(c)
  BY <1>2 DEF Lock
<1>3. CASE Fetch(c)
  <2>1. CASE Return(c, "fetch", "error") /\ UnlockFailed /\ UNCHANGED <<crumb, stale, used>>
    BY <1>3, <2>1 DEF Fetch, UnlockFailed
  <2>2. CASE /\ Move(c, "fetch", "request") /\ mutex' = None
             /\ \E v \in {good, 0} : crumb' = v /\ Use(c, v)
             /\ stale' = FALSE /\ UNCHANGED result
    <3>1. PICK v \in {good, 0} : crumb' = v /\ Use(c, v)
      BY <2>2
    <3>2. v \in 0 .. MaxVersion
      BY <3>1
    <3> QED BY <1>3, <2>2, <3>1, <3>2 DEF Fetch
  <2> QED BY <1>3, <2>1, <2>2 DEF Fetch
<1>4. CASE Request(c)
  <2>1. CASE (\E r \in {"profile", "error", "unauthorized"} : Return(c, "request", r))
             /\ UNCHANGED <<retried, at401>>
    BY <1>4, <2>1 DEF Request
  <2>2. CASE /\ Move(c, "request", "clear")
             /\ retried' = [retried EXCEPT ![c] = TRUE]
             /\ at401' = [at401 EXCEPT ![c] = good]
             /\ UNCHANGED result
    BY <1>4, <2>2 DEF Request
  <2> QED BY <1>4, <2>1, <2>2 DEF Request, Decoded, MayRetry
<1>5. CASE Clear(c)
  BY <1>5 DEF Clear, Invalidate
<1>6. CASE Done(c)
  BY <1>6 DEF Done
<1> QED BY <1>1, <1>2, <1>3, <1>4, <1>5, <1>6 DEF Step

LEMMA NextType == TypeOK /\ [Next]_vars => TypeOK'
<1> SUFFICES ASSUME TypeOK, [Next]_vars PROVE TypeOK'
  OBVIOUS
<1>1. CASE Rotate
  BY <1>1, CrumbAssumption DEF Rotate, TypeOK
<1>2. CASE Expire
  BY <1>2 DEF Expire, TypeOK
<1>3. CASE \E c \in Callers : Call(c) \/ Step(c)
  BY <1>3, StepType
<1>4. CASE UNCHANGED vars
  BY <1>4 DEF vars, TypeOK
<1> QED BY <1>1, <1>2, <1>3, <1>4 DEF Next

\* The types, and who holds the mutex: exactly the caller that is fetching a crumb
\* (fetcher.go 67-113), however its requests end.
THEOREM TypeCorrect == Spec => []TypeOK
<1> QED BY InitType, NextType, PTL DEF Spec

-----------------------------------------------------------------------------

Renewed(c, v) == v = 0 \/ v >= at401[c]

\* From the moment a refused caller has emptied the cache, whatever comes into it
\* is at least as new as what Yahoo accepted when it refused him.
Chain(c) ==
  /\ at401[c] <= good
  /\ pc[c] = "idle" => ~retried[c]
  /\ pc[c] # "done" => result[c] = "none"
  /\ retried[c] /\ pc[c] \in {"lock", "fetch"} => Renewed(c, crumb)
  /\ retried[c] /\ pc[c] \in {"request", "done"} /\ result[c] # "error" => Renewed(c, used[c])

CrumbInv == \A c \in Callers : Chain(c)

LEMMA InitCrumb == Init => CrumbInv
<1> SUFFICES ASSUME Init, NEW c \in Callers PROVE Chain(c)
  BY DEF CrumbInv
<1> QED BY DEF Init, Chain

\* A step of caller c, seen by any caller d.
LEMMA StepCrumb ==
  ASSUME TypeOK, CrumbInv, NEW c \in Callers, Call(c) \/ Step(c)
  PROVE  CrumbInv'
<1> SUFFICES ASSUME NEW d \in Callers PROVE Chain(d)'
  BY DEF CrumbInv
<1>1. Chain(c) /\ Chain(d)
  BY DEF CrumbInv
<1>2. /\ good \in Nat /\ crumb \in Nat
      /\ used \in [Callers -> Nat] /\ at401 \in [Callers -> Nat]
      /\ retried \in [Callers -> BOOLEAN]
      /\ pc \in [Callers -> {"idle", "lock", "fetch", "request", "clear", "done"}]
      /\ result \in [Callers -> {"none", "profile", "unauthorized", "error"}]
  <2>1. 0 .. MaxVersion \subseteq Nat /\ 1 .. MaxVersion \subseteq Nat
    BY CrumbAssumption
  <2> QED BY <2>1 DEF TypeOK
<1>3. CASE Call(c)
  BY <1>1, <1>2, <1>3 DEF Call, Chain, Renewed, Move, Return, Use
<1>4. CASE Lock(c)
  BY <1>1, <1>2, <1>4 DEF Lock, Chain, Renewed, Move, Return, Use
<1>5. CASE Fetch(c)
  <2>1. CASE Return(c, "fetch", "error") /\ UnlockFailed /\ UNCHANGED <<crumb, stale, used>>
    BY <1>1, <1>2, <1>5, <2>1 DEF Fetch, Chain, Renewed, Move, Return, Use
  <2>2. CASE /\ Move(c, "fetch", "request") /\ mutex' = None
             /\ \E v \in {good, 0} : crumb' = v /\ Use(c, v)
             /\ stale' = FALSE /\ UNCHANGED result
    BY <1>1, <1>2, <1>5, <2>2 DEF Fetch, Chain, Renewed, Move, Return, Use
  <2> QED BY <1>5, <2>1, <2>2 DEF Fetch
<1>6. CASE Request(c)
  <2>1. CASE Return(c, "request", "profile") /\ UNCHANGED <<retried, at401>>
    BY <1>1, <1>2, <1>6, <2>1 DEF Request, Chain, Renewed, Move, Return, Use
  <2>2. CASE Return(c, "request", "unauthorized") /\ UNCHANGED <<retried, at401>>
    BY <1>1, <1>2, <1>6, <2>2 DEF Request, Chain, Renewed, Move, Return, Use
  <2>3. CASE Return(c, "request", "error") /\ UNCHANGED <<retried, at401>>
    BY <1>1, <1>2, <1>6, <2>3 DEF Request, Chain, Renewed, Move, Return, Use
  <2>4. CASE /\ Move(c, "request", "clear")
             /\ retried' = [retried EXCEPT ![c] = TRUE]
             /\ at401' = [at401 EXCEPT ![c] = good]
             /\ UNCHANGED result
    BY <1>1, <1>2, <1>6, <2>4 DEF Request, Chain, Renewed, Move, Return, Use
  <2> QED BY <1>6, <2>1, <2>2, <2>3, <2>4 DEF Request, Decoded, MayRetry
<1>7. CASE Clear(c)
  BY <1>1, <1>2, <1>7 DEF Clear, Invalidate, Chain, Renewed, Move, Return, Use
<1>8. CASE Done(c)
  BY <1>1, <1>2, <1>8 DEF Done, Chain, Renewed, Move, Return, Use
<1> QED BY <1>3, <1>4, <1>5, <1>6, <1>7, <1>8 DEF Step

LEMMA NextCrumb == TypeOK /\ CrumbInv /\ [Next]_vars => CrumbInv'
<1> SUFFICES ASSUME TypeOK, CrumbInv, [Next]_vars PROVE CrumbInv'
  OBVIOUS
<1>1. CASE Rotate
  BY <1>1, CrumbAssumption DEF Rotate, TypeOK, CrumbInv, Chain, Renewed
<1>2. CASE Expire
  BY <1>2 DEF Expire, CrumbInv, Chain, Renewed
<1>3. CASE \E c \in Callers : Call(c) \/ Step(c)
  BY <1>3, StepCrumb
<1>4. CASE UNCHANGED vars
  BY <1>4 DEF vars, CrumbInv, Chain, Renewed
<1> QED BY <1>1, <1>2, <1>3, <1>4 DEF Next

\* The second attempt never sends a crumb older than what Yahoo accepted when it
\* refused the first (fetcher.go 275-302).
THEOREM SecondAttemptIsNewer == Spec => []SecondCrumbIsNewer
<1>1. CrumbInv => SecondCrumbIsNewer
  BY DEF CrumbInv, Chain, Renewed, SecondCrumbIsNewer
<1> QED BY <1>1, InitCrumb, NextCrumb, TypeCorrect, PTL DEF Spec

-----------------------------------------------------------------------------
(* The profile of a stock.                                                *)

RowShape ==
  /\ row \in {"none", "fresh", "old"}
  /\ stage \in [Callers -> {"idle", "refresh", "save", "answered"}]
  /\ post \in [Callers -> BOOLEAN] /\ missed \in [Callers -> BOOLEAN]
  /\ seen \in [Callers -> {"none", "fresh", "old"}]
  /\ shown \in [Callers -> {"none", "fresh", "old", "new"}]

\* A GetDetail that refreshes still shows the profile it has read, which is none or
\* out of date; one that has answered shows what ProfileKept asks for.
KeptBy(c) ==
  ~post[c] =>
    /\ stage[c] \in {"refresh", "save"} => shown[c] = seen[c] /\ NeedsRefresh(seen[c])
    /\ stage[c] = "answered" =>
         /\ shown[c] \in {"none", "old"} => missed[c]
         /\ seen[c] # "none" => shown[c] # "none"
         /\ shown[c] = "new" => row # "none"

KeptInv == RowShape /\ \A c \in Callers : KeptBy(c)

LEMMA InitKept == ProfileInit => KeptInv
BY DEF ProfileInit, KeptInv, RowShape, KeptBy

\* The row of the stock is never deleted, so a request changes only its own part.
LEMMA OwnPart ==
  ASSUME KeptInv, NEW c \in Callers, RowShape', row # "none" => row' # "none",
         \A d \in Callers \ {c} : /\ stage'[d] = stage[d] /\ post'[d] = post[d]
                                  /\ missed'[d] = missed[d] /\ seen'[d] = seen[d]
                                  /\ shown'[d] = shown[d],
         KeptBy(c)'
  PROVE  KeptInv'
<1>1. ASSUME NEW d \in Callers \ {c} PROVE KeptBy(d)'
  BY DEF KeptInv, KeptBy, NeedsRefresh
<1> QED BY <1>1 DEF KeptInv

LEMMA GetDetailKept ==
  ASSUME KeptInv, NEW c \in Callers, GetDetail(c)
  PROVE  KeptInv'
<1>1. PICK p \in {row, "none"} :
        /\ seen' = [seen EXCEPT ![c] = p] /\ shown' = [shown EXCEPT ![c] = p]
        /\ \/ NeedsRefresh(p) /\ stage' = [stage EXCEPT ![c] = "refresh"]
           \/ ~NeedsRefresh(p) /\ stage' = [stage EXCEPT ![c] = "answered"]
        /\ UNCHANGED <<row, post, missed>>
  BY DEF GetDetail, Show, Enter
<1>2. RowShape'
  BY <1>1 DEF KeptInv, RowShape
<1>3. KeptBy(c)'
  BY <1>1 DEF KeptInv, RowShape, KeptBy, NeedsRefresh
<1> QED BY <1>1, <1>2, <1>3, OwnPart DEF KeptInv, RowShape

LEMMA FetchProfileKept ==
  ASSUME KeptInv, NEW c \in Callers, FetchProfile(c)
  PROVE  KeptInv'
<1>1. /\ stage' = [stage EXCEPT ![c] = "refresh"] /\ post' = [post EXCEPT ![c] = TRUE]
      /\ UNCHANGED <<row, seen, missed, shown>>
  BY DEF FetchProfile, Enter
<1>2. RowShape' /\ KeptBy(c)'
  BY <1>1 DEF KeptInv, RowShape, KeptBy
<1> QED BY <1>1, <1>2, OwnPart DEF KeptInv, RowShape

LEMMA FetchedKept ==
  ASSUME KeptInv, NEW c \in Callers, Fetched(c)
  PROVE  KeptInv'
<1>1. /\ stage[c] = "refresh"
      /\ \/ stage' = [stage EXCEPT ![c] = "save"] /\ UNCHANGED missed
         \/ stage' = [stage EXCEPT ![c] = "answered"] /\ missed' = [missed EXCEPT ![c] = TRUE]
      /\ UNCHANGED <<row, post, seen, shown>>
  BY DEF Fetched, Enter
<1>2. RowShape'
  BY <1>1 DEF KeptInv, RowShape
<1>3. KeptBy(c)'
  BY <1>1 DEF KeptInv, RowShape, KeptBy, NeedsRefresh
<1> QED BY <1>1, <1>2, <1>3, OwnPart DEF KeptInv, RowShape

LEMMA UpsertKept ==
  ASSUME KeptInv, NEW c \in Callers, Upsert(c)
  PROVE  KeptInv'
<1>1. /\ stage[c] = "save" /\ stage' = [stage EXCEPT ![c] = "answered"]
      /\ UNCHANGED <<post, seen>>
      /\ \/ row' = "fresh" /\ shown' = [shown EXCEPT ![c] = "new"] /\ UNCHANGED missed
         \/ missed' = [missed EXCEPT ![c] = TRUE] /\ UNCHANGED <<row, shown>>
  BY DEF Upsert, Enter, Show
<1>2. RowShape'
  BY <1>1 DEF KeptInv, RowShape
<1>3. KeptBy(c)'
  BY <1>1 DEF KeptInv, RowShape, KeptBy, NeedsRefresh
<1> QED BY <1>1, <1>2, <1>3, OwnPart DEF KeptInv, RowShape

LEMMA AnswerKept ==
  ASSUME KeptInv, NEW c \in Callers, Answer(c)
  PROVE  KeptInv'
<1>1. /\ stage' = [stage EXCEPT ![c] = "idle"] /\ shown' = [shown EXCEPT ![c] = "none"]
      /\ post' = [post EXCEPT ![c] = FALSE] /\ missed' = [missed EXCEPT ![c] = FALSE]
      /\ seen' = [seen EXCEPT ![c] = "none"] /\ UNCHANGED row
  BY DEF Answer, Enter, Show
<1>2. RowShape' /\ KeptBy(c)'
  BY <1>1 DEF KeptInv, RowShape, KeptBy
<1> QED BY <1>1, <1>2, OwnPart DEF KeptInv, RowShape

LEMMA NextKept == KeptInv /\ [ProfileNext]_profileVars => KeptInv'
<1> SUFFICES ASSUME KeptInv, [ProfileNext]_profileVars PROVE KeptInv'
  OBVIOUS
<1>1. CASE UNCHANGED rowVars
  BY <1>1 DEF rowVars, KeptInv, RowShape, KeptBy
<1>2. CASE GrowOld
  BY <1>2 DEF GrowOld, KeptInv, RowShape, KeptBy
<1>3. CASE \E c \in Callers : GetDetail(c) \/ FetchProfile(c) \/ Handle(c)
  BY <1>3, GetDetailKept, FetchProfileKept, FetchedKept, UpsertKept, AnswerKept DEF Handle
<1> QED BY <1>1, <1>2, <1>3 DEF ProfileNext, Fetching, profileVars

\* However many requests read, refresh and store one profile, a page shows none or
\* one out of date only if its own refresh failed, keeps what it has read, and shows
\* as new only what is stored.
THEOREM ProfileAlwaysKept == ProfileSpec => []ProfileKept
<1>1. KeptInv => ProfileKept
  BY DEF KeptInv, KeptBy, ProfileKept
<1> QED BY InitKept, NextKept, <1>1, PTL DEF ProfileSpec

\* The requests of StockProfile use the Fetcher as YahooCrumb says its callers do.
THEOREM FetcherImplemented == ProfileSpec => Spec
<1>1. ProfileInit => Init
  BY DEF ProfileInit
<1>2. [ProfileNext]_profileVars => [Next]_vars
  <2> SUFFICES ASSUME [ProfileNext]_profileVars PROVE [Next]_vars
    OBVIOUS
  <2>1. CASE UNCHANGED vars
    BY <2>1
  <2>2. CASE Rotate \/ Expire
    BY <2>2 DEF Next
  <2>3. CASE \E c \in Callers : Call(c) \/ Step(c)
    BY <2>3 DEF Next
  <2> QED BY <2>1, <2>2, <2>3
          DEF ProfileNext, Step, GetDetail, FetchProfile, Fetching, Handle, Fetched, Upsert,
              Answer, GrowOld, profileVars
<1> QED BY <1>1, <1>2, PTL DEF ProfileSpec, Spec

\* So what holds of every second attempt of a Fetcher holds of theirs.
THEOREM PagesSecondAttempt == ProfileSpec => []SecondCrumbIsNewer
BY FetcherImplemented, SecondAttemptIsNewer, PTL

\* The types of the requests and of the Fetcher they share.
THEOREM ProfileTypeCorrect == ProfileSpec => []ProfileTypeOK
<1>1. KeptInv /\ TypeOK => ProfileTypeOK
  BY DEF KeptInv, RowShape, ProfileTypeOK
<1>2. ProfileSpec => []KeptInv
  BY InitKept, NextKept, PTL DEF ProfileSpec
<1> QED BY <1>1, <1>2, FetcherImplemented, TypeCorrect, PTL
=============================================================================
