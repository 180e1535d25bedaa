----------------------------- MODULE IngestFlow -----------------------------
(***************************************************************************)
(* The way of an article from a feed to the table: runs of the pipeline    *)
(* started by cron and by the HTTP handler, each with one worker that      *)
(* fetches pages through HttpClient, the deduplication marks in Valkey     *)
(* with their seven days, and the loop that ingests what a run returned.   *)
(* Pipeline has the goroutines of one run, ArticleUsecase what follows     *)
(* the INSERT; here are the runs together, and what survives them.         *)
(***************************************************************************)
EXTENDS HttpClient

CONSTANTS
  URLs,          \* pages in the feeds; each has its own hash
  Cancellable    \* runs of the HTTP handler; the others are cron's

ASSUME FlowAssumption == Cancellable \subseteq Callers

VARIABLES
  rpc,       \* where each run is
  todo,      \* items the pipeline of the run has not taken yet
  item,      \* the items the worker has in hand: one or none
  got,       \* articles returned and not ingested yet
  marks,     \* hashes in the deduplication cache
  table,     \* rows of news_articles
  excused,   \* history: marked pages whose run was cancelled, crashed, or
             \* could not INSERT them
  calm       \* from now on nothing fails, crashes or is cancelled

runVars == <<rpc, todo, item, got>>
vars    == <<httpVars, runVars, marks, table, excused, calm>>

FlowTypeOK ==
  /\ rpc \in [Callers -> {"idle", "scrape", "fetch", "mark", "ingest"}]
  /\ todo \in [Callers -> SUBSET URLs] /\ item \in [Callers -> SUBSET URLs]
  /\ got \in [Callers -> SUBSET URLs]
  /\ marks \in SUBSET URLs /\ table \in SUBSET URLs /\ excused \in SUBSET URLs
  /\ calm \in BOOLEAN

Init ==
  /\ HttpInit
  /\ rpc = [r \in Callers |-> "idle"]
  /\ todo = [r \in Callers |-> {}]
  /\ item = [r \in Callers |-> {}]
  /\ got = [r \in Callers |-> {}]
  /\ marks = {} /\ table = {} /\ excused = {} /\ calm = FALSE

Move(r, k, l)  == rpc[r] = k /\ rpc' = [rpc EXCEPT ![r] = l]
SetTo(f, r, S) == [f EXCEPT ![r] = S]

\* A new context; the feeds are fetched, some of them or all of them in vain.
Start(r) ==
  /\ Move(r, "idle", "scrape")
  /\ \E S \in SUBSET URLs : (calm => S = URLs) /\ todo' = SetTo(todo, r, S)
  /\ cancelled' = [cancelled EXCEPT ![r] = FALSE]
  /\ UNCHANGED <<at, attempt, asked, waited, outcome, item, got, marks, table, excused, calm>>

-----------------------------------------------------------------------------
(* The pipeline of a run.                                                   *)

\* Mutation: the check marks the page before it is fetched.
Bug_Exists(r, u) ==
  \/ u \in marks /\ UNCHANGED <<rpc, item, httpVars, marks>>
  \/ /\ u \notin marks /\ marks' = marks \cup {u}
     /\ Move(r, "scrape", "fetch") /\ item' = SetTo(item, r, {u}) /\ Get(r)

\* The page is marked, Valkey does not answer, or the page is fetched.
Exists(r, u) ==
  \/ u \in marks /\ UNCHANGED <<rpc, item, httpVars, marks>>
  \/ ~calm /\ UNCHANGED <<rpc, item, httpVars, marks>>
  \/ /\ u \notin marks /\ UNCHANGED marks
     /\ Move(r, "scrape", "fetch") /\ item' = SetTo(item, r, {u}) /\ Get(r)

TakeItem(r, u) ==
  /\ rpc[r] = "scrape" /\ u \in todo[r]
  /\ todo' = SetTo(todo, r, todo[r] \ {u})
  /\ Exists(r, u)
  /\ UNCHANGED <<got, table, excused, calm>>

\* A cancelled request fails however calm it is.
Fetching(r) ==
  /\ rpc[r] = "fetch" /\ GetStep(r)
  /\ calm /\ ~cancelled[r] => at'[r] # "backoff" /\ outcome'[r] \in {"none", "body"}
  /\ UNCHANGED <<runVars, marks, table, excused, calm>>

\* Get has returned: a page with an article, or nothing of use.
Fetched(r) ==
  /\ Got(r) /\ UNCHANGED cancelled
  /\ \/ outcome[r] = "body" /\ Move(r, "fetch", "mark") /\ UNCHANGED item
     \/ /\ outcome[r] # "body" \/ ~calm
        /\ Move(r, "fetch", "scrape") /\ item' = SetTo(item, r, {})
  /\ UNCHANGED <<todo, got, marks, table, excused, calm>>

\* What is lost of S is excused: it is marked and not in the table.
Excuse(S, M) == excused' = excused \cup ((S \cap M) \ table)

\* Set, which may fail, and the result that is collected, or dropped with the
\* rest of the run when the context is done.
SetKey(r) ==
  /\ Move(r, "mark", "scrape") /\ item' = SetTo(item, r, {})
  /\ marks' = marks \cup item[r] \/ (~calm /\ UNCHANGED marks)
  /\ \/ got' = SetTo(got, r, got[r] \cup item[r]) /\ UNCHANGED <<todo, excused>>
     \/ /\ cancelled[r] /\ Excuse(item[r], marks') /\ todo' = SetTo(todo, r, {})
        /\ UNCHANGED got
  /\ UNCHANGED <<httpVars, table, calm>>

\* Feeder and workers leave a cancelled run, or everything is done: Run returns.
PipelineReturns(r) ==
  /\ cancelled[r] \/ todo[r] = {}
  /\ Move(r, "scrape", "ingest") /\ todo' = SetTo(todo, r, {})
  /\ UNCHANGED <<httpVars, item, got, marks, table, excused, calm>>

-----------------------------------------------------------------------------
(* The loop over the articles, in the handler and in the cron job.          *)

\* Create: the row, a duplicate key, or any other error.
Ingest(r, u) ==
  /\ rpc[r] = "ingest" /\ u \in got[r]
  /\ \/ /\ u \notin table /\ ~cancelled[r]
        /\ table' = table \cup {u} /\ excused' = excused \ {u}
        /\ got' = SetTo(got, r, got[r] \ {u})
     \/ /\ u \in table /\ got' = SetTo(got, r, got[r] \ {u})
        /\ UNCHANGED <<table, excused>>
     \/ /\ ~calm /\ got' = SetTo(got, r, got[r] \ {u})
        /\ Excuse({u}, marks) /\ UNCHANGED table
  /\ UNCHANGED <<httpVars, rpc, todo, item, marks, calm>>

\* The handler looks at the context before each article; what is left is lost.
StopLoop(r) ==
  /\ cancelled[r] /\ Move(r, "ingest", "idle")
  /\ got' = SetTo(got, r, {}) /\ Excuse(got[r], marks)
  /\ UNCHANGED <<httpVars, todo, item, marks, table, calm>>

EndLoop(r) ==
  /\ got[r] = {} /\ Move(r, "ingest", "idle")
  /\ UNCHANGED <<httpVars, todo, item, got, marks, table, excused, calm>>

-----------------------------------------------------------------------------
(* What happens to runs and marks.                                          *)

Cancel(r) ==
  /\ ~calm /\ r \in Cancellable /\ rpc[r] # "idle" /\ ~cancelled[r]
  /\ cancelled' = [cancelled EXCEPT ![r] = TRUE]
  /\ UNCHANGED <<at, attempt, asked, waited, outcome, runVars, marks, table, excused, calm>>

\* The process dies and is started again: runs are gone, marks and rows are not.
Crash ==
  /\ ~calm
  /\ rpc' = [r \in Callers |-> "idle"]
  /\ todo' = [r \in Callers |-> {}] /\ item' = [r \in Callers |-> {}]
  /\ got' = [r \in Callers |-> {}]
  /\ at' = [r \in Callers |-> "idle"] /\ outcome' = [r \in Callers |-> "none"]
  /\ attempt' = [r \in Callers |-> 0] /\ asked' = [r \in Callers |-> 0]
  /\ waited' = [r \in Callers |-> 0] /\ cancelled' = [r \in Callers |-> FALSE]
  /\ Excuse(UNION {got[r] : r \in Callers}, marks)
  /\ UNCHANGED <<marks, table, calm>>

\* Mutation: the key is set without a TTL.
Bug_Expires(u) == FALSE

\* Seven days later; no run takes that long.
Expires(u) == \A r \in Callers : u \notin got[r]

Expire(u) ==
  /\ u \in marks /\ Expires(u)
  /\ marks' = marks \ {u} /\ excused' = excused \ {u}
  /\ UNCHANGED <<httpVars, runVars, table, calm>>

\* The sites, Valkey and PostgreSQL recover, and nobody cancels any more.
Settle == ~calm /\ calm' = TRUE /\ UNCHANGED <<httpVars, runVars, marks, table, excused>>

RunStep(r) ==
  \/ \E u \in URLs : TakeItem(r, u) \/ Ingest(r, u)
  \/ Fetching(r) \/ Fetched(r) \/ SetKey(r) \/ PipelineReturns(r)
  \/ StopLoop(r) \/ EndLoop(r)

Next == \/ \E r \in Callers : Start(r) \/ RunStep(r) \/ Cancel(r)
        \/ Crash \/ Settle \/ \E u \in URLs : Expire(u)

Spec == Init /\ [][Next]_vars

\* Cron fires for ever, whatever runs goes on, marks expire, and one day the
\* trouble is over.
FairSpec ==
  /\ Spec /\ WF_vars(Settle)
  /\ \A r \in Callers : WF_vars(RunStep(r))
  /\ \A r \in Callers \ Cancellable : WF_vars(Start(r))
  /\ \A u \in URLs : WF_vars(Expire(u))

-----------------------------------------------------------------------------
(* Properties.                                                              *)

Underway == UNION {got[r] : r \in Callers}

\* A mark keeps a page from being fetched for seven days.  It is set in one run,
\* read in another and survives both: whoever finds it set can rely on the article
\* being saved, or on its way in some run, unless the run that set it was
\* cancelled, crashed, or had its INSERT refused (worker.go 140-153, article_usecase.go 80).
MarkedIsAccounted == marks \subseteq table \cup Underway \cup excused

\* An article that stays in the feeds is saved in the end: no mark, failed fetch,
\* cancelled run or crash of the past keeps it out for good.
OfferedIsSaved == <>(URLs \subseteq table)
=============================================================================
