------------------------------ MODULE Pipeline ------------------------------
(***************************************************************************)
(* One call of Pipeline.Run (ingestion/pipeline.go) with the WorkerPool it *)
(* creates (ingestion/worker.go): the feeder goroutine, the workers, the   *)
(* goroutine that closes the results channel, and the collecting loop of   *)
(* the caller.  The two channels are FIFO buffers of Cap places.  The      *)
(* deduplication cache is shared with the other runs of the process (the   *)
(* cron job and the HTTP handler run the same pipeline).                   *)
(***************************************************************************)
EXTENDS Integers, Sequences, FiniteSets, Functions

CONSTANTS
  Worker,        \* the worker goroutines of the pool
  PerWorker,     \* places for each of them in a channel (2 in the code)
  NumSources,    \* number of feeds in the request
  MaxFeed,       \* most items a feed can return
  MaxItems,      \* items of one feed that are submitted (20 in the code)
  Hash,          \* values of hasher.MD5Hash
  HashOf(_),     \* hash of the normalised URL of a feed item
  CacheEnabled   \* FALSE when the Valkey client is nil

Source == 1 .. NumSources
Job    == Source \X (1 .. MaxItems)   \* <<source, position in its feed>>
NoJob  == <<0, 0>>

ASSUME PipelineAssumption ==
  /\ IsFiniteSet(Worker) /\ Worker # {} /\ PerWorker \in Nat \ {0}
  /\ NumSources \in Nat /\ MaxFeed \in Nat /\ MaxItems \in Nat \ {0}
  /\ CacheEnabled \in BOOLEAN
  /\ \A j \in Job : HashOf(j) \in Hash

Cap == PerWorker * Cardinality(Worker)

VARIABLES
  fpc,            \* feeder: "source" (loop head), "submit", "closed"
  fsrc,           \* feeder: source being read
  fitem,          \* feeder: next item of it to submit
  flen,           \* feeder: items of it to submit, at most MaxItems
  jobs,           \* the jobs channel
  wpc,            \* worker: "idle", "exists", "scrape", "set", "send", "exited"
  wjob,           \* worker: job in hand
  wres,           \* worker: outcome of the job in hand
  results,        \* the results channel
  resultsClosed,  \* close(wp.results) has run
  articles,       \* caller: jobs of the articles collected
  errs,           \* caller: jobs of the errors collected
  returned,       \* Run has returned
  ctxDone,        \* ctx is cancelled
  dedup,          \* hashes present in the deduplication cache
  accepted,       \* history: jobs submitted
  lost,           \* history: results dropped because ctx was done
  marked          \* history: hashes this run has put in the cache

feederVars  == <<fpc, fsrc, fitem, flen>>
workerVars  == <<wpc, wjob, wres>>
callerVars  == <<articles, errs, returned>>
historyVars == <<accepted, lost, marked>>
vars == <<feederVars, jobs, workerVars, results, resultsClosed, callerVars,
          ctxDone, dedup, historyVars>>

WorkerPC == {"idle", "exists", "scrape", "set", "send", "exited"}
Outcome  == {"article", "duplicate", "error"}
Result   == [job : Job, outcome : Outcome]

TypeOK ==
  /\ fpc \in {"source", "submit", "closed"}
  /\ fsrc \in 1 .. NumSources + 1
  /\ fitem \in 1 .. MaxItems
  /\ flen \in 0 .. MaxItems
  /\ jobs \in Seq(Job)
  /\ wpc \in [Worker -> WorkerPC]
  /\ wjob \in [Worker -> Job \cup {NoJob}]
  /\ wres \in [Worker -> Outcome \cup {"none"}]
  /\ results \in Seq(Result)
  /\ articles \in Seq(Job) /\ errs \in Seq(Job)
  /\ resultsClosed \in BOOLEAN /\ returned \in BOOLEAN /\ ctxDone \in BOOLEAN
  /\ dedup \in SUBSET Hash
  /\ accepted \in SUBSET Job
  /\ lost \in SUBSET Result
  /\ marked \in SUBSET Hash

Init ==
  /\ fpc = "source" /\ fsrc = 1 /\ fitem = 1 /\ flen = 0
  /\ jobs = <<>> /\ results = <<>> /\ resultsClosed = FALSE
  /\ wpc = [w \in Worker |-> "idle"]
  /\ wjob = [w \in Worker |-> NoJob]
  /\ wres = [w \in Worker |-> "none"]
  /\ articles = <<>> /\ errs = <<>> /\ returned = FALSE
  /\ ctxDone = FALSE
  /\ dedup \in SUBSET (IF CacheEnabled THEN Hash ELSE {})
  /\ accepted = {} /\ lost = {} /\ marked = {}

-----------------------------------------------------------------------------
(* The feeder goroutine; leaving it in any way runs the deferred Close.    *)

CloseJobs == /\ fpc' = "closed"
             /\ UNCHANGED <<fsrc, fitem, flen>>

FeederCancelled == fpc = "source" /\ fsrc <= NumSources /\ ctxDone /\ CloseJobs

FeederDone == fpc = "source" /\ fsrc > NumSources /\ CloseJobs

\* Items FeedParser.ParseFeed can find; an error counts as none.
FeedItems == 0 .. MaxFeed

Cut(n) == IF n > MaxItems THEN MaxItems ELSE n

\* The next source is parsed and its items are cut at MaxItems.
ParseFeed ==
  /\ fpc = "source" /\ fsrc <= NumSources /\ ~ctxDone
  /\ \E n \in FeedItems :
       IF n = 0
         THEN fsrc' = fsrc + 1 /\ UNCHANGED <<fpc, fitem, flen>>
         ELSE /\ fpc' = "submit" /\ fitem' = 1
              /\ flen' = Cut(n)
              /\ UNCHANGED fsrc

\* Mutation: the source index is not advanced after the last item.
Bug_NextItem ==
  IF fitem < flen
    THEN fitem' = fitem + 1 /\ UNCHANGED <<fpc, fsrc, flen>>
    ELSE fpc' = "source" /\ fitem' = 1 /\ UNCHANGED <<fsrc, flen>>

NextItem ==
  IF fitem < flen
    THEN fitem' = fitem + 1 /\ UNCHANGED <<fpc, fsrc, flen>>
    ELSE fpc' = "source" /\ fsrc' = fsrc + 1 /\ fitem' = 1 /\ UNCHANGED flen

Submit ==
  /\ fpc = "submit" /\ Len(jobs) < Cap
  /\ jobs' = Append(jobs, <<fsrc, fitem>>)
  /\ accepted' = accepted \cup {<<fsrc, fitem>>}
  /\ NextItem

\* Mutation: a plain send, without the ctx.Done() branch of the select.
Bug_SubmitCancelled == FALSE

SubmitCancelled == fpc = "submit" /\ ctxDone /\ CloseJobs

Feeder ==
  /\ \/ Submit
     \/ /\ FeederCancelled \/ FeederDone \/ ParseFeed \/ SubmitCancelled
        /\ UNCHANGED <<jobs, accepted>>
  /\ UNCHANGED <<workerVars, results, resultsClosed, callerVars, ctxDone,
                 dedup, lost, marked>>

-----------------------------------------------------------------------------
(* A worker goroutine.                                                     *)

Goto(w, pc) == wpc' = [wpc EXCEPT ![w] = pc]

\* processJob has a result; the worker is about to offer it.
Finish(w, outcome) == /\ Goto(w, "send")
                      /\ wres' = [wres EXCEPT ![w] = outcome]
                      /\ UNCHANGED wjob

Forget(w) == /\ wjob' = [wjob EXCEPT ![w] = NoJob]
             /\ wres' = [wres EXCEPT ![w] = "none"]

Take(w) ==
  /\ wpc[w] = "idle" /\ jobs # <<>>
  /\ jobs' = Tail(jobs)
  /\ wjob' = [wjob EXCEPT ![w] = Head(jobs)]
  /\ Goto(w, "exists")
  /\ UNCHANGED <<wres, results, dedup, lost, marked>>

MayExit == ctxDone \/ (fpc = "closed" /\ jobs = <<>>)

Exit(w) ==
  /\ wpc[w] = "idle" /\ MayExit
  /\ Goto(w, "exited")
  /\ UNCHANGED <<jobs, wjob, wres, results, dedup, lost, marked>>

\* DedupCache.Exists and DedupCache.Set; with a nil client nothing is ever set.
Cached(h) == h \in dedup
Mark(h)   == /\ CacheEnabled
             /\ dedup' = dedup \cup {h} /\ marked' = marked \cup {h}

\* Mutation: the check also sets the key, before the article is scraped.
Bug_Exists(w) ==
  /\ wpc[w] = "exists"
  /\ \/ Cached(HashOf(wjob[w])) /\ Finish(w, "duplicate") /\ UNCHANGED <<dedup, marked>>
     \/ /\ ~Cached(HashOf(wjob[w])) /\ Mark(HashOf(wjob[w]))
        /\ Goto(w, "scrape") /\ UNCHANGED <<wjob, wres>>
  /\ UNCHANGED <<jobs, results, lost>>

\* The dedup check: an error, a hit, or a miss.
Exists(w) ==
  /\ wpc[w] = "exists"
  /\ \/ Finish(w, "error")
     \/ Cached(HashOf(wjob[w])) /\ Finish(w, "duplicate")
     \/ ~Cached(HashOf(wjob[w])) /\ Goto(w, "scrape") /\ UNCHANGED <<wjob, wres>>
  /\ UNCHANGED <<jobs, results, dedup, lost, marked>>

\* A transport error, a status outside 2xx, a page that cannot be parsed or has
\* no content; or else the text.
ScrapeArticle(w) == \/ Finish(w, "error")
                    \/ Goto(w, "set") /\ UNCHANGED <<wjob, wres>>

Scrape(w) ==
  /\ wpc[w] = "scrape"
  /\ ScrapeArticle(w)
  /\ UNCHANGED <<jobs, results, dedup, lost, marked>>

\* The URL is marked; a failure to do so is only logged.
SetKey(w) ==
  /\ wpc[w] = "set"
  /\ Finish(w, "article")
  /\ Mark(HashOf(wjob[w])) \/ UNCHANGED <<dedup, marked>>
  /\ UNCHANGED <<jobs, results, lost>>

Send(w) ==
  /\ wpc[w] = "send" /\ Len(results) < Cap
  /\ results' = Append(results, [job |-> wjob[w], outcome |-> wres[w]])
  /\ Goto(w, "idle") /\ Forget(w)
  /\ UNCHANGED <<jobs, dedup, lost, marked>>

\* The other branch of the select: the worker leaves, its result is gone.
Drop(w) ==
  /\ wpc[w] = "send" /\ ctxDone
  /\ lost' = lost \cup {[job |-> wjob[w], outcome |-> wres[w]]}
  /\ Goto(w, "exited") /\ Forget(w)
  /\ UNCHANGED <<jobs, results, dedup, marked>>

WorkerStep(w) ==
  /\ \/ Take(w) \/ Exit(w) \/ Exists(w) \/ Scrape(w) \/ SetKey(w)
     \/ Send(w) \/ Drop(w)
  /\ UNCHANGED <<feederVars, resultsClosed, callerVars, ctxDone, accepted>>

-----------------------------------------------------------------------------
(* The closing goroutine, the caller, and the world around the run.        *)

\* Mutation: results is closed as soon as there is no job left to take.
Bug_AllExited == fpc = "closed" /\ jobs = <<>>

AllExited == \A w \in Worker : wpc[w] = "exited"

CloseResults ==
  /\ ~resultsClosed /\ AllExited
  /\ resultsClosed' = TRUE
  /\ UNCHANGED <<feederVars, jobs, workerVars, results, callerVars, ctxDone,
                 dedup, historyVars>>

Collect ==
  /\ results # <<>>
  /\ results' = Tail(results)
  /\ IF Head(results).outcome = "article"
       THEN articles' = Append(articles, Head(results).job) /\ UNCHANGED errs
       ELSE errs' = Append(errs, Head(results).job) /\ UNCHANGED articles
  /\ UNCHANGED <<feederVars, jobs, workerVars, resultsClosed, returned,
                 ctxDone, dedup, historyVars>>

\* Mutation: the caller stops at the first empty results channel after the feeds.
Bug_Drained == fpc = "closed" /\ results = <<>>

\* The range over wp.Results() ends: closed and empty.
Drained == resultsClosed /\ results = <<>>

Return ==
  /\ ~returned /\ Drained
  /\ returned' = TRUE
  /\ UNCHANGED <<feederVars, jobs, workerVars, results, resultsClosed,
                 articles, errs, ctxDone, dedup, historyVars>>

Caller == Collect \/ Return

\* The HTTP handler cancels the context it gave to Run.
Cancel ==
  /\ ~ctxDone /\ ctxDone' = TRUE
  /\ UNCHANGED <<feederVars, jobs, workerVars, results, resultsClosed,
                 callerVars, dedup, historyVars>>

\* A concurrent run of the process marks a URL in the shared cache.
OtherRunMarks ==
  /\ CacheEnabled
  /\ \E h \in Hash \ dedup : dedup' = dedup \cup {h}
  /\ UNCHANGED <<feederVars, jobs, workerVars, results, resultsClosed,
                 callerVars, ctxDone, historyVars>>

Next ==
  \/ Feeder \/ CloseResults \/ Caller \/ Cancel \/ OtherRunMarks
  \/ \E w \in Worker : WorkerStep(w)

Fairness == /\ WF_vars(Feeder) /\ WF_vars(CloseResults) /\ WF_vars(Caller)
            /\ \A w \in Worker : WF_vars(WorkerStep(w))

Spec     == Init /\ [][Next]_vars
FairSpec == Spec /\ Fairness

-----------------------------------------------------------------------------
(* Properties.                                                             *)

ReportedURLs == {HashOf(j) : j \in Range(articles)}

\* The results channel is closed only after the last worker has left, so no
\* worker can panic by sending on it (worker.go 68-72, 115-119).
NoSendAfterClose ==
  resultsClosed => \A w \in Worker : wpc[w] \notin {"exists", "scrape", "set", "send"}

\* However the workers interleave, a submitted feed item comes back at most
\* once: never as two articles, two errors, or one of each.
OneResultPerJob ==
  LET all == articles \o errs
  IN  \A k, m \in 1 .. Len(all) : all[k] = all[m] => k = m

\* A run that was not cancelled returns an article for every URL it has put in
\* the deduplication cache: a marked URL will not be fetched for seven days, so
\* marking one without returning its article loses the article (worker.go 140-153).
MarkedIsReturned ==
  returned /\ ~ctxDone => marked \subseteq ReportedURLs

\* Run keeps the promise of IngestRun.
Run == INSTANCE IngestRun WITH
         closed <- (fpc = "closed"), succeeded <- Range(articles),
         failed <- Range(errs), cancelled <- ctxDone
ImplementsRun == Run!Spec

\* Cancelled or not, Run returns and every goroutine it started ends: nobody is
\* left blocked on a full or an empty channel.
RunTerminates == <>[](returned /\ fpc = "closed" /\ AllExited)
=============================================================================
