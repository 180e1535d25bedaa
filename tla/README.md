# Verification of quant-indonesia-scraping

The server scrapes Indonesian market news from RSS feeds, has an LLM score each
article and name the companies in it, stores both in PostgreSQL, and serves
signals, prices and profiles over HTTP. This directory models its state-changing
parts in TLA+, checks them with TLC on small instances and proves the central
invariants with TLAPS for every size.

## 1. Inventory

| Component (source) | State | Operations | What is hard | What makes it correct |
|---|---|---|---|---|
| Pipeline and worker pool (`ingestion/pipeline.go`, `worker.go`) | two bounded channels, a WaitGroup, the caller's lists | feed, submit, work, close, collect | a full channel blocks its sender; closing while somebody sends; cancellation at any point | no send after close, each accepted item reported once, the run ends |
| Dedup cache (`repository/valkey/dedup.go`) | marked URL hashes, for seven days | `Exists`, `Set` | the two calls are apart; both may fail; marks outlive the runs that set them | a marked URL is one that is saved or about to be; no mark keeps an article out for good |
| Ingestion handler (`delivery/http/handler/ingestion_handler.go`) | `currentCancel`, one goroutine per run | `Trigger`, `Reprocess`, `Cancel` | the slot is freed by two parties; a run outlives its cancellation | one run at a time; a cancelled run stops; clients hear how a run ended |
| Cron scheduler (`ingestion/scheduler.go`) | none of its own | one run per firing | shares everything with the handler and locks nothing | its runs do not disturb the others |
| Article use case (`usecase/article_usecase.go`, `repository/postgres/article_repo.go`, `stock_repo.go`) | rows of five tables | `Ingest`, `ReprocessUnanalyzed` | separate statements, any of which may fail, or be the last before a crash; overlapping calls | analysed exactly once, tags complete, nothing blacklisted stored |
| Event broadcaster (`pkg/broadcaster`) | clients' channels | `Subscribe`, `Unsubscribe`, `Broadcast` | close against send; a slow client holds the lock | no send on a closed channel, events in order |
| Gemini analyzer (`llm/gemini.go`) | active key, active model | `Analyze` | concurrent callers rotate one shared index | no healthy key or model left untried |
| HTTP client (`pkg/httpclient`) | token bucket | `Get` | retries, capped backoff with jitter, cancellation while it waits | gives up after the last attempt and not before; no retry of a client error |
| Yahoo fetcher (`pkg/yfinance`) | cached crumb | `FetchProfile`, `FetchPrices` | concurrent 401s throw a fresh crumb away | at most one retry, with a newer crumb |
| Stock handler and profiles (`stock_handler.go`, `stock_profile_repo.go`) | `stock_profiles` | `GetDetail`, `FetchProfile` | requests refresh one row at once, each with what it has read before | a failed refresh loses nothing stored |
| Price updates (`ingestion/price_scheduler.go`, `import_handler.go`, `stock_price_repo.go`) | `stock_prices` | cron, refresh, import | refreshes overlap and nothing orders them; batches are all or nothing | one symbol's failure is its own |
| Rate limiter (`delivery/http/middleware/rate_limiter.go`) | bucket per address | request, reaper | the reaper deletes a bucket in use | admitted requests bounded |
| Response cache (`delivery/http/middleware/cache.go`) | cached bodies | get, asynchronous set | a goroutine stores the body after the answer; a late one may replace a newer | bounded staleness; stale bodies die out |
| Signals (`usecase/signal_usecase.go`, `signal_repo.go`, `pkg/quant`, `pkg/technical`) | none stored; prices and articles are its input | aggregate, indicators, composite score | boundaries, missing data, two scales joined in one score | better news never rates worse; a signal has a reason |

The handler's goroutine and the cron job call `Pipeline.Run` and then
`ArticleUsecase.Ingest` for each article it returns; both report to the clients
through the broadcaster. `Ingest` and `ReprocessUnanalyzed` call the analyzer.
Everything meets in the database and in the dedup cache. Every HTTP request passes the
rate limiter, a GET then the response cache, before it reaches its handler.

## 2. Modules

A module models one component; an `MC…` module beside it gives TLC its
constants, a `…Proofs` module holds its theorems.

| Module | Models | One step is |
|---|---|---|
| `IngestRun` | what `Pipeline.Run` promises its caller, without goroutines or channels | one promise kept: a job accepted, an article or an error reported, the return |
| `Pipeline` | `pipeline.go`, `worker.go`, `dedup.go` | one channel operation, one call of cache or scraper, one turn of the feeder |
| `IngestionHandler` | `ingestion_handler.go`, the loop of `ReprocessUnanalyzed`, `scheduler.go` | one critical section of the handler's mutex, the broadcast in that of Cancel, one article, one sleep |
| `ArticleUsecase` | `article_usecase.go` over `article_repo.go` and `stock_repo.go` | one SQL statement or one answer of the LLM |
| `Broadcaster` | `broadcaster.go` with its stream handler | one lock operation, one send or skip or timeout, one receive |
| `GeminiAnalyzer` | `gemini.go` | one access to the shared key index or model, one HTTP answer |
| `HttpClient` | `Client.Get` of `pkg/httpclient` | one wait, one request, one return |
| `IngestFlow` | the runs of cron and handler together, from feed to table, over `HttpClient` | one look at the dedup cache, one step of `Get`, one `INSERT`; a crash; a mark that expires |
| `YahooCrumb` | `FetchProfile` and `ensureCrumb` of `fetcher.go` | one critical section, one HTTP answer |
| `StockProfile` | `GetDetail`, `FetchProfile` of `stock_handler.go` and `stock_profile_repo.go`, over `YahooCrumb` | one query, one step of the fetcher, one upsert |
| `PriceUpdate` | `price_scheduler.go`, `import_handler.go`, `stock_price_repo.go` | one fetch, one batch saved |
| `RateLimiter` | `rate_limiter.go` for one address | `LoadOrStore`, `lastSeen`, `Allow`; the reaper's look and its delete; a tick |
| `ResponseCache` | `cache.go`, behind `RateLimiter` as `router.go` puts it | one step of the limiter, a lookup, an answer, a store, a tick |
| `Indicators` | `pkg/technical` | another closing price |
| `Scoring` | `pkg/quant` | pure operators |
| `SignalFlow` | `signal_usecase.go`, `signal_repo.go`, over `Indicators` and `Scoring` | another closing price; the news are quantified over |

**Pipeline.** The feeder goroutine is `fpc`, `fsrc`, `fitem`, `flen`; each worker
is at a place `wpc[w]` with a job `wjob[w]` and an outcome `wres[w]`; `jobs` and
`results` are the channels, `Cap` places each; the goroutine of `wp.Close` that
waits for the WaitGroup and closes `results` is `CloseResults`; `Collect` and
`Return` are the `for range` of the caller. Each `select` with `ctx.Done()` is a
choice between two actions (`Submit`/`SubmitCancelled`, `Take`/`Exit`,
`Send`/`Drop`). `accepted`, `lost` and `marked` are history: the code keeps no such
lists. The feed parser and the scraper appear by their outcome only. `Cancel` is
the handler's, `OtherRunMarks` another run using the same cache.

**IngestionHandler.** `slot` is `currentCancel`. Trigger, Reprocess and the cron
job share the actions of a run and differ in their guards. `Cancel` keeps the mutex while
it broadcasts a `done` of its own: `closing` is the run it is about to say that of, and
`CancelSays` the broadcast and the unlock, between which the run goes on. `said` keeps the
events that clients hear of a run, from the run itself and from `Cancel`, in their order;
log events count as progress and progress events in a row as one. The work of a run is a
number of articles.

**ArticleUsecase.** `row` is `news_articles` with `processed_at` null or not,
`shown` the analysis the row was last updated with, `tags`, `stocks` and `execs`
the other tables, of which the keys only. Foreign keys, `UNIQUE (url_hash)` and
PostgreSQL's refusal to touch a row twice in one `ON CONFLICT DO UPDATE` are
guards. Every statement may fail, `Crash` ends all calls and keeps the tables. The articles
that no `Ingest` of the instance is given (`Saved`) are there from the start, saved by
earlier runs. `Stuck` names articles the LLM may refuse for ever; no action reads it, only
the fairness.

**Broadcaster.** `readers` and `writer` are the RWMutex, in which a waiting writer
keeps new readers out; `todo[r]` is what is left of `range b.clients`, `target[r]`
the client waited for.

**GeminiAnalyzer.** The API is an environment chosen in `Init`: the keys over
their quota, the models that do not exist. What is shared (`activeKey`,
`activeModel`) is read and written in steps of their own, as in the code.

**YahooCrumb.** A crumb is the version of it, 0 the empty string. Yahoo moves to a
new version whenever it likes, half an hour passes whenever it likes.

**PriceUpdate.** Today's row of each symbol, a close and an open price. A price is
the number of the quote it was read from, which says which of two is newer.

**RateLimiter.** Buckets are counted in whole tokens, time in ticks. `ideal` is a
bucket that is never reaped, the reference for what may be admitted.

**HttpClient.** `at[c]` is where in `Get` a call is; time is counted in quarters of
`baseBackoff`, so that halving and jitter stay whole. The limiter of `x/time/rate`
grants at some time or other. `Do` joins all that is asked again in `Failed`: a
transport error, a body that breaks off, a 5xx, a 429.

**IngestFlow.** One worker per run; `Pipeline` has the many. `marks` and `table` outlive
the runs, `Crash` ends all runs and keeps both. `excused` is history: the marked pages
whose run was cancelled, died, or had its `INSERT` refused. `calm` says that from now on
the sites, Valkey and PostgreSQL answer and nobody cancels, the hypothesis of liveness.

**StockProfile.** The row is absent, or its `fetched_at` is less or more than a day old.
A request keeps the profile it has read (`seen`) while it refreshes.

**ResponseCache.** One cache key. An answer is the version of the tables it was read
from, `since[v]` the time since version `v` was replaced. The goroutine that stores an
answer goes on after its request has been answered; it keeps the request's place, so
at most as many of them are underway as there are places.

**Indicators, Scoring, SignalFlow.** Recursive functions and operators, evaluated over a
series that grows by a price a day. Prices are multiples of a number (`Unit`) that every
average divides, so the averages are exact (`UnitAssumption`, which TLC evaluates over all series); the ratios that enter the composite score
are rounded down to a unit. The RSI is a fraction, as it is compared with bounds. A price may
be 0 (divergence 15): the tests that the code has for it are guards (`Change`, `HasMA`,
`AboveMA`, `BelowMA`). The code uses `float64`, whose rounding is not modelled.
No caller passes a volume ratio or a foreign flow, so the two are absent.

### How the modules compose

- `Pipeline` implements `IngestRun` (refinement mapping at the end of `Pipeline`, checked
  as `ImplementsRun` and proved).
- `IngestFlow` extends `HttpClient`: a run's worker is a caller of `Get`. It is the
  composition of several runs with the dedup cache and the table.
- `StockProfile` extends `YahooCrumb`: a request calls the fetcher, and implements its
  specification (`FetcherImplemented`, proved).
- `ResponseCache` extends `RateLimiter`: the middleware chain, which implements the
  specification of the limiter (`LimiterImplemented`, proved).
- `SignalFlow` joins `Indicators` and `Scoring`, with the scales the use case gives them.

The other interactions are through what each module leaves open: `IngestionHandler` lets a
run take any number of articles and end any way, `ArticleUsecase` lets any calls overlap,
which is what the handler and the cron job can do to it, `Broadcaster` is given any events.

## 3. Runs

Each run has a `.cfg` of its name. Each property below has in PROJECT.json a
mutation of the code's model, the `Bug_…` definition beside the one it stands for,
under which TLC finds it violated.

| Run | Distinct states | Shows |
|---|---|---|
| `Pipeline` | 693 000 | no send after close; a job is reported at most once, and, without a cancel, exactly once; what is marked is returned; `Pipeline` implements `IngestRun`; every run ends with all its goroutines |
| `Handler` | 353 000 | the slot never holds a dead run; HTTP runs are bounded by cancels; a cancel is seen after one article; clients hear of an end from the run once and from Cancel once more, and nothing after it but from a cancelled reprocess; runs end |
| `HandlerOverlap` | stops at a violation | two uncancelled HTTP runs at a time, see below |
| `Usecase` | 80 900 | tags on analysed articles only; blacklisted symbols stored nowhere; tags complete although two calls may analyse one article; every saved article that is not refused for ever analysed in the end, across a crash, behind a newer one that is refused for ever |
| `UsecaseRepeat` | stops at a violation | a company named twice loses all tags, see below |
| `Flow` | 665 000 | `Get` gives up only after all attempts and backoffs; a marked page is saved, on its way, or excused, across runs, cancels, crashes and expiry; an article that stays in the feeds is saved in the end |
| `Gemini` | 4 410 000 | the remembered model works; models are exhausted only after three attempts; a caller on its own finds a working key and model |
| `Broadcast` | 166 000 | no send on a closed channel; order per run; every event received, waiting, or known to be dropped; slow clients stop nobody |
| `Web` | 233 000 | reaping changes nothing unless it hits an entry in use, and then costs at most one burst; entries go; a cached answer is no error and of bounded age, and stale ones die out |
| `Profile` | 120 000 | the second attempt has a newer crumb; calls return; no page loses a profile but by its own failed refresh |
| `Price` | 116 000 | a run leaves a fresh price for every stock it did not fail for; an open price is never lost |
| `Signals` | 5 461 | the RSI is a number from 0 to 100, also of a price that is zero or does not move, and rises with the last price; MACD of a rising series is not negative; a split changes no signal; better news never lowers score or signal, with prices or without; a signal has some factor behind it |

`Signals` has few states because each is a whole series of prices; in every one of them
all the scores and majorities of the news, and all the changes of one input, are compared.

The type invariants (`TypeOK`, `HttpTypeOK`, `FlowTypeOK`, `WebTypeOK`, `ProfileTypeOK`,
`GeminiTypeOK`) document the variables. All of them are theorems (section 6), and no run
repeats them.

### Divergences

Places where the code does something else than its comments, its documents or its
other parts say. The first two are checked; their run ends in the counterexample.

1. *Two runs at once* (`HandlerOverlap`, `AtMostOneRun`). `Cancel` empties the slot
   while its run goes on; another run takes the slot; the first ends, and its
   deferred cleanup clears the slot of the second (ingestion_handler.go:104). A
   third run starts beside the second, which nobody has cancelled.
   `RunsBoundedByCancels`, proved, is what remains true.
2. *Repeated company* (`UsecaseRepeat`, `RepeatsHandled`). The LLM names a company
   twice, `CreateTags` proposes one key twice, PostgreSQL rejects the whole
   statement (article_repo.go:268). The article is processed and without tags.

The rest came up while modelling. A property is stated so as to hold in spite of
each, and its comment says how far.

3. `Exists` and `Set` are apart (worker.go:130, 148): two workers may return the
   same page twice; `UNIQUE (url_hash)` catches it in `Ingest`.
4. A worker that has marked a URL drops its article when the context is done
   (worker.go:117); nothing fetches it again for the TTL of the mark. Hence
   "not cancelled" in `MarkedIsReturned`.
5. The cron run has no slot (scheduler.go:55-60): `Cancel` does not see it.
6. `ReprocessUnanalyzed` picks up articles whose `Ingest` is waiting for the LLM
   (article_usecase.go:203) and analyses them again; the later update wins and the
   tags of both analyses stay. Hence "at least" in `TagsComplete`.
7. An article that failed between `Update` and `CreateTags` counts as processed and
   is not taken up again (article_usecase.go:105). Hence `faulted`.
8. Two callers refused with one key both rotate and are back at it (gemini.go:332,
   against "retry with new key", :169). Hence `alone` in `HealthyPairFound`.
9. The relevance of a tag is neither clamped nor checked after the LLM, while
   migrations/000004, line 4, has a CHECK on it.
10. "Critical events must be delivered" (broadcaster.go:71), but are dropped after
    100 ms (:74).
11. The reaper may delete an entry a request has just renewed
    (rate_limiter.go:54); the next request gets a second full bucket.
12. After a 401 the crumb in the cache is emptied even if another caller has just
    put a new one there (fetcher.go:281).
13. Overlapping refreshes may leave an older price over a newer
    (import_handler.go:223). Hence `excused` in `PriceUpdate`.
14. The prices of the index are fetched in each run and rejected by the foreign
    key (price_scheduler.go:62), as `IHSG` is blacklisted (sector.go:324) and never
    gets a row in `stocks`.
15. `close_price` is tagged `required` (import_handler.go:48), which only the
    validator enforces; a row without it is stored with price 0. The RSI, the averages and
    the MACD take it for a price; only the daily change after it, the ratios to an average
    of zero and the comparison of a last price of zero with its average leave it out
    (indicators.go:145, 184, signal_usecase.go:100, 104).
16. A price that has not moved has RSI 100 (indicators.go:86) and counts as heavily
    overbought (:177).
17. "RSI > 80 with negative sentiment" (scoring.go:168) sells only below a composite
    score of 0.25; above it the answer is HOLD (:163).
18. A mark is set before the `INSERT` (worker.go:148, article_usecase.go:80). An article
    whose run is cancelled, dies or fails in between is kept out of the table until the
    mark expires. Hence `excused` in `MarkedIsAccounted`, and "in the end" in
    `OfferedIsSaved`.
19. The backoff is converted to `time.Duration` before it is capped (client.go:137). With
    `INGESTION_RETRY_MAX` of 36 or more it overflows, and `rand.Int64N` panics on an
    argument that is not positive. `HttpAssumption` states what the code needs; the
    default of three is far from it.
20. A `POST` that refreshes a profile or prices does not invalidate the response cache,
    and an answer with status 200 that lacks the profile, because its refresh failed, is
    cached like any other (cache.go:69). `HitsAreRecent` bounds both.
21. Two goroutines may store one key in either order (cache.go:71), so an older answer
    can replace a newer one and have a full TTL. Hence the sum in `HitsAreRecent`.
22. After a refresh `GetDetail` answers the profile as fetched (stock_handler.go:145), whose
    `fetched_at`, set by the database, is the zero time; and the upsert overwrites
    `founded_year` and `employees` with null when Yahoo does not say them
    (stock_profile_repo.go:61, 64).
23. The histogram of the MACD enters the score divided by 5 (scoring.go:112), in rupiah: the
    score of a stock depends on its price level. `SplitKeepsSignal` holds for the
    indicators' own signal, not for the composite.
24. Clients of a cancelled trigger hear of two ends: the `done` of `Cancel`
    (ingestion_handler.go:236) and later the run's own `cancelled` or `done` (:127, :170),
    the last of which says that the run has succeeded. The run may say that it starts or
    progresses between the two. Hence "from Cancel once more" in `EndAnnounced`.
25. A cancelled reprocess says nothing more where it waits (article_usecase.go:252) or its
    list fails, but it says which article is next just before the wait (:239). The page, which
    shows a run from every start, progress or log (app.js:899) until the next end (:916), then
    shows one that is over. Hence the exception in `EndAnnounced`.
26. An article that is saved without an analysis "can be re-processed later"
    (article_usecase.go:92), but the batch is the newest ten (article_repo.go:168), and nothing
    remembers that the LLM has refused one: ten newer articles that it refuses again and again,
    or ten new ones before each call, and the older is never in a batch. Hence
    `StuckAssumption`, and no further arrivals, in `SavedIsAnalysed`: with as many stuck articles
    as `Limit`, TLC finds it violated.

## 4. Bounds

Bounds are constants of the modules, named in the `.cfg`s.

- **Pipeline.** Two workers are the fewest that can race; two feeds are the fewest
  between which the feeder moves on; a feed may have three items and is cut at two
  (20 in the code), so that the cut happens. `PerWorker` is 1 where the code has 2:
  two places in a channel and up to four jobs fill both channels, which four places
  would not. The first items of the feeds share a URL hash, so that two workers do
  meet in the dedup cache, which may hold anything at the start and be marked by
  another run at any time.
- **Handler.** Two triggers, a reprocess request and a cron run, batches of up to
  two articles (10 in the code), one cancel. One cancel makes a run overlap a
  cancelled one and its broadcast fall between any two steps of the run; two articles make
  the loop go round. `HandlerOverlap` has the three
  triggers its counterexample needs.
- **Usecase.** Three articles and `Limit` 2 (10 in the code). The newest may be refused for
  ever, the middle one is given to an ingest, the oldest is not in the batch while both of
  them are waiting: it gets its turn, as one fewer than `Limit` are stuck. The ingest and a
  reprocess caller that calls again and again overlap on the same article. The analyses name
  a blacklisted index before a company. One crash, at any point; `Crash` ends everything, so a
  second one begins where the first did.
- **Gemini.** Two callers, two models, none to four keys with every subset of them
  refused and every subset of models missing; `Retries` is the code's three.
- **Broadcast.** Two runs, of two events and of one, of both kinds; two
  connections, each with room for one event (500 in the code) so that it is full.
- **Flow.** The cron run and one of the handler, which start again and again, two pages
  in the feeds. Two retries, of which the second meets the cap (`MaxBackoff` 3 is below
  twice `Base`); the code has three retries and a cap that the seventh would meet. A page
  expires from the cache whenever no run has it in hand: a run takes no seven days.
- **Web.** Two requests at a time: one that holds an old bucket and one that makes a new
  one, or two that store an answer. Burst 2, one token a tick, stale after 4 ticks: an idle
  bucket is full well before it is stale (`LimiterAssumption`), as in the code (20 tokens,
  10 a second, 3 minutes). A time to live of two ticks (30 s), one tick each for a handler
  and a store (`HandlerLimit`; `SetLimit`, 2 s), one change of the tables, which makes two
  answers that can overtake one another. Time does not pass inside a lookup.
- **Profile.** Two requests, of either kind, that come back for ever; two versions of the
  crumb: it can be refused and replaced while another request has the old one.
- **Price.** Two runs, three quotes, a stock and the index.
- **Signals.** All series of up to six of four prices, of which one is 0 and the last five are
  read (90 in the code), so that the window does cut. The periods are scaled down and keep their
  order. For each input of the score its extremes, values between, and its absence.

`CHECK_DEADLOCK FALSE` stands where the system does stop: a run has returned
(`Pipeline`), all requests have been answered (`Handler`), all events are out and
all clients gone (`Broadcast`), the series is complete (`Signals`). The calls of
`Usecase` never stop calling, nor do those of the other modules.

## 5. Fairness

Weak fairness of each goroutine, which the Go scheduler gives: `Feeder`,
`CloseResults`, `Caller` and each `WorkerStep(w)` in `Pipeline`, `RunStep(p)` and
`CancelSays` in `IngestionHandler` (a Broadcast ends, which is `RunsGoOn` of `Broadcaster`), `RunStep(r)` and the lock operations in `Broadcaster`, `Step(c)`
in `ArticleUsecase`, `RunStep(r)` in `IngestFlow`, `Fetching(c)` and `Handle(c)` in
`StockProfile`, `Serve(r)` and the reaper in `ResponseCache`. HTTP
calls and SQL statements end, by an answer, an error or a timeout, which the code
sets on its clients. Beyond that:

- `StockProfile`: strong fairness of the fetcher's `Lock` and `Clear`: `sync.Mutex` hands itself to a
  goroutine that has waited for 1 ms.
- `ArticleUsecase`: weak fairness of somebody calling Reprocess; and for each article on its
  own, strong fairness of a call reaching it in its batch (clients do not always cancel before)
  and, unless it is stuck, of the LLM answering for it and of its `UPDATE` succeeding. This is
  no promise of the code but the hypothesis of `SavedIsAnalysed`. It says nothing of the stuck
  articles, which may be refused whenever they are asked, nor that a caller ever
  succeeds with the article at the head of its batch: that the next one gets its turn is what
  the loop and the `LIMIT` do.
- `Broadcaster`: none for `Receive` and `Disconnect`: clients may never read. That a
  writer does not starve the readers holds because connections are finitely many.
- `IngestFlow`: weak fairness of the cron job starting when it is idle, of marks expiring,
  and of `Settle`. The last is no promise of anybody but the hypothesis of
  `OfferedIsSaved`: one day the trouble is over. Before that anything may happen; what
  the property says is that nothing of the past keeps an article out for good. The
  handler's run is given no fairness of starting.
- `ResponseCache`: strong fairness of the clock, as requests that lie between two ticks
  may come without end; `StaleDiesOut` supposes that there is a moment between them again
  and again (`[]<>Pause`). None for requests to come. `EntriesGo` assumes that the
  address falls silent with no request half done.

`Gemini`, `Price`, `Signals` and the two violation runs check safety only and assume
nothing.

## 6. What is proved

The theorems hold for every value of the constants that satisfies the named ASSUME
of the module (`PipelineAssumption`, `HandlerAssumption`, `CrumbAssumption`,
`BroadcasterAssumption`, `HttpAssumption`, `FlowAssumption`, `LimiterAssumption`,
`CacheAssumption`, `UsecaseAssumption`, `StuckAssumption`, `GeminiAssumption`, `PriceAssumption`,
`IndicatorAssumption`, `UnitAssumption`, `ScoringAssumption`, `SignalAssumption`):
finitely many workers, runs, requests or stocks, bounds that are natural numbers, a `None`
that is nobody, models that are named once, a backoff that fits its type, an idle bucket
that is full before it is stale, periods of which the slow one is the longer, and a `Unit`
that keeps the averages exact. TLC evaluates each on every run of its module.
`StuckAssumption` (fewer stuck articles than `Limit`) is used by no proof; it is what the
liveness of `ArticleUsecase` needs.

`UnitAssumption` is the only one about the model and not about the code: the code divides
in `float64`, the model in integers, and they say the same where no division leaves a
remainder. Every choice of prices, periods and days has such a `Unit` (any number that
enough powers of the periods and of their successors divide, as many as there are days). `UptrendMACD` and
`SplitKeepsSignal` rest on it, and integer division with remainders would break the
second; the other theorems on signals hold with any rounding down.

| Theorem | For every value of the constants |
|---|---|
| `PipelineProofs!TypeCorrect` | the types of a run's variables |
| `PipelineProofs!NeverSendAfterClose` | no worker holds a job when `results` is closed |
| `PipelineProofs!MarkedAlwaysReturned` | an uncancelled run returns what it has marked |
| `PipelineProofs!NeverReportedTwice` | a submitted item comes back at most once |
| `PipelineProofs!RunImplemented` | the pipeline implements `IngestRun` |
| `PipelineProofs!UncancelledReportsAll` | an uncancelled run reports each item handed to its workers, as an article or as an error, not both |
| `PipelineProofs!ReturnedIsFinal` | what `Run` has returned is never added to |
| `IngestionHandlerProofs!TypeCorrect` | the types of the handler's variables |
| `IngestionHandlerProofs!SlotAlwaysLive` | the run in the slot is live and not cancelled |
| `IngestionHandlerProofs!RunsAlwaysBounded` | live HTTP runs ≤ cancelled ones, plus one if the slot is taken |
| `IngestionHandlerProofs!CancelAlwaysSeen` | a trigger begins at most one article after its cancel |
| `IngestionHandlerProofs!EndAlwaysAnnounced` | a run tells its end at most once, Cancel once more if it cancelled it; only a reprocess that has said nothing or was cancelled may leave it at that, and only a cancelled one may open again what was ended |
| `StockProfileProofs!TypeCorrect` | the types, and who holds the mutex |
| `StockProfileProofs!SecondAttemptIsNewer` | the second attempt has a crumb at least as new as the refusal |
| `BroadcasterProofs!TypeCorrect` | the types; no channel above its capacity, no event nobody broadcast |
| `BroadcasterProofs!NeverSendOnClosed` | no Broadcast has a closed channel ahead of it |
| `BroadcasterProofs!AlwaysInOrder` | a client gets the events of a run in their order, none twice |
| `BroadcasterProofs!AlwaysAccounted` | what a subscriber was to be sent has arrived, is on its way, or was dropped |
| `AnalysisProofs!TypeCorrect` | the types of the calls and the tables |
| `AnalysisProofs!TaggedIsAnalysed` | only an analysed article has tags |
| `AnalysisProofs!BlacklistedNowhere` | a blacklisted symbol is in no table |
| `AnalysisProofs!TagsAlwaysComplete` | an analysed article nobody works on has all its tags, unless a statement failed |
| `AnalysisProofs!GeminiTypeCorrect` | the types of the analyzer's variables |
| `AnalysisProofs!ActiveModelAnswers` | the active model is the first one or one that exists |
| `AnalysisProofs!ExhaustionIsEarned` | "exhausted" is told only after every model has had its attempts |
| `AnalysisProofs!HealthyPairIsFound` | a caller left alone, with no more keys than it retries, finds a key and a model that work |
| `FlowProofs!HttpTypeCorrect`, `FlowTypeCorrect` | the types of the client, and of the runs and what they store |
| `FlowProofs!MarksAlwaysAccounted` | a marked page is saved, in the hands of a run, or excused |
| `FlowProofs!ClientGivesUpLate`, `RunsGiveUpLate` | `Get` gives up after `MaxRetries + 1` requests and the backoffs between them, in any client and in the runs |
| `FlowProofs!RSIAlwaysRises` | the RSI is from 0 to 100, of averages that are not negative and without a division by zero; it is 100 of a series that never fell, and rises with the last price |
| `FlowProofs!UptrendIsPositive` | the MACD of a series that does not fall is not negative |
| `FlowProofs!SplitKeepsAnySignal` | tripling all prices changes no technical signal |
| `FlowProofs!SignalsAlwaysBacked` | a signal made of the composite score has a factor on its side |
| `FlowProofs!BetterIsNeverWorse` | better news and better factors lower neither score nor signal |
| `ResponseCacheProofs!TypeCorrect`, `WebTypeCorrect` | the types of the limiter, its buckets within a burst, and of the cache |
| `ResponseCacheProofs!ReapingAlwaysInvisible` | a bucket holds what one never reaped would, unless one was deleted in use |
| `ResponseCacheProofs!NeverMoreThanTwice` | no address is admitted more than one burst beyond its due |
| `ResponseCacheProofs!HitsAlwaysRecent` | a cached answer is no error and of bounded age |
| `ResponseCacheProofs!LimiterImplemented` | limiter and cache in a chain implement the limiter; the two theorems above hold there |
| `StockProfileProofs!ProfileTypeCorrect` | the types of the requests for a profile |
| `StockProfileProofs!ProfileAlwaysKept` | only a request's own failed refresh leaves its page without a profile that is up to date |
| `StockProfileProofs!FetcherImplemented`, `PagesSecondAttempt` | the requests implement the fetcher's specification, so their second attempts have a newer crumb |
| `PriceUpdateProofs!TypeCorrect` | the types of the price loops and the table |
| `PriceUpdateProofs!AlwaysFreshAtEnd` | a run leaves a fresh price for every stock it listed, unless excused |
| `PriceUpdateProofs!OptionalAlwaysKept` | an open price is never lost |

The crumb cache shares a module of proofs with the profile that uses it, the rate limiter
with the response cache behind it, the analyzer with the use case that calls it
(`AnalysisProofs`). `FlowProofs` is about the two flows through several parts, of the
articles and of the prices, which need the same induction.

**Pipeline.** `TypeOK` is not inductive: `Submit` builds a job from `fsrc`, which may
be one past the last source, and `Send` a result from `wres`, which may be "none".
`TypeInv` adds where in the code each is not. `ChannelInv`: closed results mean that all
workers have left, and a return that the channel is closed and empty. For
`MarkedIsReturned` one must know where the article of a marked hash is at any
moment: `MarkedInv` says at a worker about to send, in the results channel, among the
articles of the caller, or among the dropped ones, and that something is dropped only
after a cancel. At the return `ChannelInv` empties the first two places.
`FeedInv` and `PlaceInv` follow the jobs: the feeder is past what it has submitted, so
that each job is new, and a submitted job is in exactly one place: the jobs channel, a
worker's hands, the results channel or the lists of the caller; no place holds it twice.
`OneResultPerJob` is the last of these places. For the refinement, `Submit` is the step
that accepts a job, `Collect` the one that reports it, and all others stutter but the
cancel, the feeder's last step and the return. That a return finds all jobs reported
needs `ExitInv` (a worker leaves only on a cancel, or when the channel is closed and
empty) with `PlaceInv` (`RunStep`). What the caller can rely on is then
proved of `IngestRun` alone, by a short induction over its six actions, and carried over
by the refinement (`PromiseKept`).

**IngestionHandler.** Every step of a run has one shape (`RunStepShape`): it moves
between live places, or it is the cleanup, which also empties the slot. `SlotInv`: the
run in the slot is live and not cancelled. The bound counts: a request adds a live
run and fills the slot; a cancel empties the slot and adds a cancelled one; a cleanup
takes a live one away, which pays for the slot it empties. The lemmas on cardinality are
those of `FiniteSetTheorems`. `LateInv`: an article begun after the cancel takes the run
past the place where it begins one, and only the head of the loop, which reads the
context, leads back there. `SaidInv` gives for each place
of the program what clients have heard of a run by then, counting apart the ends it has told
itself (`NumEnds` less `Told`, what Cancel has said of it): none before its last event, one
after it, and after the last place where it says anything the last event is an end, but for a
cancelled reprocess. `ClosingInv` ties the other side: the run that Cancel is about to speak of
is cancelled and out of the slot, and nobody has spoken of it before, so that Cancel speaks of
each run once (`NextClosing`, `NextSaid`).

**YahooCrumb.** `Chain(c)` follows the crumb of a caller that was refused: while it is
locking or fetching, the cache is empty or at least as new as `at401[c]`; when it sends
its request, so is what it sends. Other callers keep this, since whatever they put in the
cache is the version Yahoo accepts at that time, and versions do not go back.

**Broadcaster.** `SendInv`: a run without the read lock has nothing ahead of it, what is
ahead of a run is in the map, and a closed channel is out of the map for good. The last
step is that `Unsubscribe` needs the lock for itself. `OrderInv`: what has arrived of a run
rises and is not beyond its current event, which has not arrived where it is still to be
sent; a run sends to each connection once. `AccountInv` keeps the books of each
connection: what is due to a subscriber is what has arrived, is on its way or was dropped,
and one who is about to subscribe has none of the three. For the types, `TypeInv` adds
that a run with the read lock is at one of its events.

**ArticleUsecase.** `CallOK(c)`: a call that stores an analysis has updated its article;
the companies it has built are in `stocks`, and with those still to do they make up the
analysis. `Complete` strengthens `TagsComplete` to the time in between: the tags are
there, or a call is about to store those of the very analysis the article shows. A
second call that updates the article takes this obligation over; one that stores tags
of an older analysis takes none away, as tags only grow (`OthersOK`).

**IngestFlow.** `MarkedIsAccounted` is inductive with the types of what runs hold
(`MarkInv`): a mark and the article it stands for are handed on in the same step, or the
page is excused. `CountInv` says how many requests a call has sent at each place: one for
each attempt before, and one more once it has returned "exceeded". `WaitInv` says how
long it has waited at each place: for the backoffs up to its attempt, each between its half
and its whole. That the sum of the backoffs is what `LeastWait` computes is induction over
a recursive function, see below.

**Induction.** The library's theorems on induction take an operator, which the provers here
cannot instantiate. `Smallest` is the one step that is needed instead: the natural numbers
are well-founded (`NatLessThanWellFounded`, `WFMin`), so that a set of them with a member
has a least one. `Induction` says from it that a *set* with 0 and with each number the next
has them all, `Recursion` that a recursive function on `Nat`, given as a function of place
and value before, exists; `IndexInduction` and `RunExists` say the same of intervals, and
`SubsetInduction` of the subsets of a finite set. They are applied to sets and functions
that are built in the proofs, so nothing is instantiated.

**GeminiAnalyzer.** `OrderOfModels`: the list of models to try has the active one first and
every other one once. `AskInv(c)`: a call has given each model before its turn all its
attempts, the one at its turn as many as it counts, and those after it none; it remembers
only a model that has answered, which `ActiveModelWorks` needs. For the caller left alone
`PairInv(c)` adds that the keys from which it rotated have no quota left, and
`OneRotation` that three rotations pass each of at most three keys. It holds of the caller
as long as nobody else has started (`AloneInv`); without `alone` it is not inductive, as a
second caller rotates the shared index past a key that works (divergence 8).

**Scoring.** `SumFunction` is a fold; `SumDef` gives it the recursion it stands for and
`SumNoLess` follows by induction over subsets: greater summands, no lesser sum. So means,
factors and the composite score do not fall when an input gets better (`ScoreNoLess`), and
neither does the signal, threshold by threshold (`RankNoLess`). `DominatedIsNoBetter` puts
the two together for any two inputs of which one is no better in any field. A score beyond
a threshold has a factor of its sign, else the weighted sum would have the other sign
(`ScoreIsBacked`).

**Indicators.** The running averages are unfolded once (`EMADef`, `SmoothedDef`) and all
else is `IndexInduction` over the days. The average gain and loss rise and fall with the
last price because rounding down keeps order, and both are sums of numbers that are not
negative. So a bound on the RSI, read as one of the gain against the loss (`RSIBound`), is
kept by a higher price (`RSIFollows`); the loss of zero is a case of its own, as it is in the
code: with it the denominator is never zero (`RSIRange`), and it is what a series that never
fell has (`RSIOfNoFall`). For the uptrend, with exact arithmetic: an
average lies under the last price it has seen (`AverageUnderLast`) and not under the mean of
all it has seen (`AverageOverMean`); the slow average starts at that mean, so below the fast
one, and a step towards a higher price with a longer period leaves it there
(`FasterStaysAbove`). For the split, every indicator of the tripled series is three times
that of the series, where no division leaves a remainder (`DivScaled`); the thresholds
compare such numbers with each other or with zero (`VotesScaled`).

**RateLimiter.** `LimInv` compares what the map's entry and a deleted bucket still in
use can admit with the ideal bucket. `Places`: a bucket idle for `n` ticks has regained
`Rate * n` tokens, so a stale one is full. `ReapInv`: what is taken from an entry while the
reaper is about to delete it is taken from the ideal bucket too. `OneOld`: there is one
deleted bucket in use at a time, and while it is, the entry is too new to be
stale. `Debt`: the two together admit at most one burst too much, and a
debt is paid back before the entry can be stale again: this is where
`2 * Burst <= Rate * Stale` is needed. A new bucket exists as there is one more than
requests (`FreshBucket`).

**ResponseCache.** `Held` bounds how long an answer can have been out of date while the
handler and then the goroutine have it, `Kept` while the cache has it; each stage adds its
own limit. Steps of the chain are steps of the limiter or leave it alone.

**StockProfile.** `KeptBy(c)`: while a page's refresh is underway it still shows the
profile it has read. No request changes another's part, and no row is ever deleted
(`OwnPart`). The refinement is by projection; the theorem on the crumb carries over.

**PriceUpdate.** `RunOK(r)`: a stock the run has listed is still to do, or has a price no
older than the run, or is excused. When nothing is to do the last two are left. That the
list the run works through holds every stock is a counting argument: the sequence is as
long as the set and repeats nothing (`AllListed`, with the pigeonhole theorems of the
library).

Only model-checked: all liveness (`RunTerminates`, `RunsEnd`, `SavedIsAnalysed`,
`OfferedIsSaved`, `RunsGoOn`, `LeaversGo`, `EntriesGo`, `StaleDiesOut`, `CallsReturn`),
which is out of TLAPS' reach with its fairness. Every invariant, every action property and
the refinements that the passing runs check are theorems.

## 7. What is not modelled

- Text: feed parsing, HTML extraction, prompts, URL normalisation (a hash is a
  function of the item), the fields of articles and profiles.
- Executives: the repository's own upsert is called by a tool that is run by hand
  only; that of the ingest is part of `ArticleUsecase`.
- Listings and other handlers that only read; the cron library, routing,
  configuration, logging and metrics, the web interface, which keep no state of their
  own; the command line tools and migrations, which are run by hand.
- The queries that form the aggregates of the signals: an average and a majority are
  inputs of `SignalFlow`.
- Several workers per run in `IngestFlow`; `Pipeline` has them, for one run.
- A store in Valkey that is reported as timed out and carried out later.
- The data race on `lastSeen` beyond the old or the new value; 64-bit words are not
  torn on the platforms the Dockerfile builds for.
- Rounding of floating point numbers.

## 8. Plan

Done: the pipeline and the handler, where the concurrency is; the use case, where the
failures are; the shared services; the compositions `IngestFlow`, `ResponseCache`,
`StockProfile` and `SignalFlow`; theorems on all that are modelled, for every invariant that is checked.

Left: a composition of `IngestFlow` with `ArticleUsecase`, which share
`news_articles`.
