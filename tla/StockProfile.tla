---------------------------- MODULE StockProfile ----------------------------
(***************************************************************************)
(* The profile of one stock: GetDetail and FetchProfile of                 *)
(* delivery/http/handler/stock_handler.go, the row of stock_profiles, and  *)
(* the Fetcher of YahooCrumb, which the requests share.  GetDetail shows   *)
(* the stored profile and refreshes it first when it is missing or more    *)
(* than a day old; FetchProfile always refreshes it.                       *)
(***************************************************************************)
EXTENDS YahooCrumb

VARIABLES
  row,      \* the row of the stock: none, or how old fetched_at is
  stage,    \* where each request is
  post,     \* it is a FetchProfile, not a GetDetail
  seen,     \* the profile GetDetail has read, "none" also when that failed
  missed,   \* history: the refresh failed
  shown     \* the profile of its answer

rowVars     == <<row, stage, post, seen, missed, shown>>
profileVars == <<vars, rowVars>>

ProfileTypeOK ==
  /\ TypeOK
  /\ row \in {"none", "fresh", "old"}
  /\ stage \in [Callers -> {"idle", "refresh", "save", "answered"}]
  /\ post \in [Callers -> BOOLEAN] /\ missed \in [Callers -> BOOLEAN]
  /\ seen \in [Callers -> {"none", "fresh", "old"}]
  /\ shown \in [Callers -> {"none", "fresh", "old", "new"}]

ProfileInit ==
  /\ Init
  /\ row = "none"
  /\ stage = [c \in Callers |-> "idle"]
  /\ post = [c \in Callers |-> FALSE] /\ missed = [c \in Callers |-> FALSE]
  /\ seen = [c \in Callers |-> "none"] /\ shown = [c \in Callers |-> "none"]

Enter(c, k, l) == stage[c] = k /\ stage' = [stage EXCEPT ![c] = l]
Show(c, p)     == shown' = [shown EXCEPT ![c] = p]

\* Mutation: any profile will do.
Bug_NeedsRefresh(p) == p = "none"

\* profile == nil || time.Since(profile.FetchedAt) > 24*time.Hour
NeedsRefresh(p) == p \in {"none", "old"}

\* GetDetail reads the stock (without it the answer is an error) and the row;
\* an error of the second is logged and leaves it without a profile.
GetDetail(c) ==
  /\ \E p \in {row, "none"} :
       /\ seen' = [seen EXCEPT ![c] = p] /\ Show(c, p)
       /\ \/ NeedsRefresh(p) /\ Enter(c, "idle", "refresh") /\ Call(c)
          \/ ~NeedsRefresh(p) /\ Enter(c, "idle", "answered") /\ UNCHANGED vars
  /\ UNCHANGED <<row, post, missed>>

FetchProfile(c) ==
  /\ Enter(c, "idle", "refresh") /\ Call(c)
  /\ post' = [post EXCEPT ![c] = TRUE]
  /\ UNCHANGED <<row, seen, missed, shown>>

\* The fetcher returns.
Fetched(c) ==
  /\ Done(c)
  /\ \/ result[c] = "profile" /\ Enter(c, "refresh", "save") /\ UNCHANGED missed
     \/ /\ result[c] # "profile" /\ Enter(c, "refresh", "answered")
        /\ missed' = [missed EXCEPT ![c] = TRUE]
  /\ UNCHANGED <<row, post, seen, shown>>

\* StockProfileRepo.Upsert, in one statement: all or nothing.  Without it the
\* answer is the profile read, or an error 500.
Upsert(c) ==
  /\ Enter(c, "save", "answered")
  /\ \/ row' = "fresh" /\ Show(c, "new") /\ UNCHANGED missed
     \/ missed' = [missed EXCEPT ![c] = TRUE] /\ UNCHANGED <<row, shown>>
  /\ UNCHANGED <<vars, post, seen>>

\* The answer is sent.
Answer(c) ==
  /\ Enter(c, "answered", "idle") /\ Show(c, "none")
  /\ post' = [post EXCEPT ![c] = FALSE] /\ missed' = [missed EXCEPT ![c] = FALSE]
  /\ seen' = [seen EXCEPT ![c] = "none"]
  /\ UNCHANGED <<vars, row>>

\* A day goes by.
GrowOld == row = "fresh" /\ row' = "old" /\ UNCHANGED <<vars, stage, post, seen, missed, shown>>

Fetching(c) == (Lock(c) \/ Fetch(c) \/ Request(c) \/ Clear(c)) /\ UNCHANGED rowVars
Handle(c) == Fetched(c) \/ Upsert(c) \/ Answer(c)

ProfileNext ==
  \/ (Rotate \/ Expire) /\ UNCHANGED rowVars
  \/ GrowOld
  \/ \E c \in Callers : GetDetail(c) \/ FetchProfile(c) \/ Fetching(c) \/ Handle(c)

ProfileSpec == ProfileInit /\ [][ProfileNext]_profileVars

\* Requests go on; sync.Mutex starves nobody.
FairProfileSpec ==
  /\ ProfileSpec
  /\ \A c \in Callers :
       /\ WF_profileVars(Fetching(c)) /\ WF_profileVars(Handle(c))
       /\ SF_profileVars(Lock(c) /\ UNCHANGED rowVars)
       /\ SF_profileVars(Clear(c) /\ UNCHANGED rowVars)

-----------------------------------------------------------------------------
(* Properties.                                                              *)

\* However many requests refresh a profile at once, and wherever one of them fails:
\* a page lacks the profile, or shows one that is out of date, only if its own
\* refresh failed; one it has read it never loses; what it shows as new is stored
\* (stock_handler.go 108-149).
ProfileKept ==
  \A c \in Callers : stage[c] = "answered" /\ ~post[c] =>
    /\ shown[c] \in {"none", "old"} => missed[c]
    /\ seen[c] # "none" => shown[c] # "none"
    /\ shown[c] = "new" => row # "none"
=============================================================================
