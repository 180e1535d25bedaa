--------------------------- MODULE PipelineProofs ---------------------------
(***************************************************************************)
(* Theorems about Pipeline, for any number of workers, feeds, items and    *)
(* URLs.                                                                   *)
(***************************************************************************)
EXTENDS Pipeline, SequenceTheorems, TLAPS

Busy == {"exists", "scrape", "set", "send"}

\* What a goroutine holds at each place of its code.
ControlOK ==
  /\ fpc = "submit" => fsrc <= NumSources
  /\ \A w \in Worker : wpc[w] \in Busy => wjob[w] \in Job
  /\ \A w \in Worker : wpc[w] = "send" => wres[w] \in Outcome

TypeInv == TypeOK /\ ControlOK

\* What the operations on a channel or a slice return.
LEMMA AppendType ==
  ASSUME NEW S, NEW s \in Seq(S), NEW e \in S
  PROVE  Append(s, e) \in Seq(S)
  OBVIOUS

\* Taking from a channel of S leaves a channel of S.
LEMMA HeadTailType ==
  ASSUME NEW S, NEW s \in Seq(S), s # <<>>
  PROVE  Head(s) \in S /\ Tail(s) \in Seq(S)
  OBVIOUS

\* The initial states are well typed.
LEMMA InitType == Init => TypeInv
<1> SUFFICES ASSUME Init PROVE TypeInv
  OBVIOUS
<1> USE DEF Init
<1>1. /\ fsrc \in 1 .. NumSources + 1 /\ fitem \in 1 .. MaxItems /\ flen \in 0 .. MaxItems
      /\ fpc = "source"
  BY PipelineAssumption
<1>2. jobs \in Seq(Job) /\ results \in Seq(Result) /\ articles \in Seq(Job) /\ errs \in Seq(Job)
  OBVIOUS
<1>3. /\ wpc \in [Worker -> WorkerPC] /\ wjob \in [Worker -> Job \cup {NoJob}]
      /\ wres \in [Worker -> Outcome \cup {"none"}]
  BY DEF WorkerPC
<1>4. dedup \in SUBSET Hash /\ accepted \in SUBSET Job /\ lost \in SUBSET Result /\ marked \in SUBSET Hash
  OBVIOUS
<1>5. ControlOK
  BY DEF ControlOK, Busy
<1> QED BY <1>1, <1>2, <1>3, <1>4, <1>5 DEF TypeInv, TypeOK

\* A step of the feeder keeps the types.
LEMMA FeederType == TypeInv /\ Feeder => TypeInv'
<1> SUFFICES ASSUME TypeInv, Feeder PROVE TypeInv'
  OBVIOUS
<1> USE DEF TypeInv, TypeOK, ControlOK, workerVars, callerVars, Source
<1>1. CASE Submit
  <2>1. fsrc \in Source /\ <<fsrc, fitem>> \in Job
    BY <1>1, PipelineAssumption DEF Submit, Job
  <2>2. jobs' \in Seq(Job) /\ accepted' \in SUBSET Job
    BY <1>1, <2>1, AppendType DEF Submit
  <2>3. /\ fpc' \in {"source", "submit", "closed"} /\ fsrc' \in 1 .. NumSources + 1
        /\ fitem' \in 1 .. MaxItems /\ flen' \in 0 .. MaxItems
        /\ fpc' = "submit" => fsrc' <= NumSources
    <3>1. /\ NumSources \in Nat /\ MaxItems \in Nat \ {0} /\ fsrc \in 1 .. NumSources
          /\ fitem \in 1 .. MaxItems /\ flen \in 0 .. MaxItems
      BY <2>1, PipelineAssumption
    <3>2. CASE fitem < flen
      BY <1>1, <3>1, <3>2 DEF Submit, NextItem
    <3>3. CASE ~(fitem < flen)
      BY <1>1, <3>1, <3>3 DEF Submit, NextItem
    <3> QED BY <3>2, <3>3
  <2> QED BY <1>1, <2>2, <2>3 DEF Feeder
<1>2. CASE (FeederCancelled \/ FeederDone \/ SubmitCancelled) /\ UNCHANGED <<jobs, accepted>>
  BY <1>2 DEF Feeder, FeederCancelled, FeederDone, SubmitCancelled, CloseJobs
<1>3. CASE ParseFeed /\ UNCHANGED <<jobs, accepted>>
  <2>1. /\ fpc' \in {"source", "submit", "closed"} /\ fsrc' \in 1 .. NumSources + 1
        /\ fitem' \in 1 .. MaxItems /\ flen' \in 0 .. MaxItems
        /\ fpc' = "submit" => fsrc' <= NumSources
    <3>1. NumSources \in Nat /\ MaxFeed \in Nat /\ MaxItems \in Nat \ {0} /\ fsrc \in 1 .. NumSources
      BY <1>3, PipelineAssumption DEF ParseFeed
    <3>2. PICK n \in 0 .. MaxFeed :
            IF n = 0 THEN fsrc' = fsrc + 1 /\ UNCHANGED <<fpc, fitem, flen>>
            ELSE fpc' = "submit" /\ fitem' = 1 /\ flen' = Cut(n) /\ UNCHANGED fsrc
      BY <1>3 DEF ParseFeed, FeedItems
    <3>3. CASE n = 0
      BY <1>3, <3>1, <3>2, <3>3 DEF ParseFeed
    <3>4. CASE n # 0
      <4>1. Cut(n) \in 0 .. MaxItems /\ 1 \in 1 .. MaxItems
        BY <3>1 DEF Cut
      <4> QED BY <3>1, <3>2, <3>4, <4>1
    <3> QED BY <3>3, <3>4
  <2> QED BY <1>3, <2>1 DEF Feeder
<1> QED BY <1>1, <1>2, <1>3 DEF Feeder

\* A step of a worker keeps the types.
LEMMA WorkerType == ASSUME NEW w \in Worker PROVE TypeInv /\ WorkerStep(w) => TypeInv'
<1> SUFFICES ASSUME TypeInv, WorkerStep(w) PROVE TypeInv'
  OBVIOUS
<1> USE DEF TypeInv, TypeOK, ControlOK, feederVars, callerVars, Busy, WorkerPC, Outcome, Goto
<1>1. CASE Take(w)
  <2>1. jobs' \in Seq(Job) /\ Head(jobs) \in Job
    BY <1>1 DEF Take
  <2> QED BY <1>1, <2>1 DEF Take, WorkerStep
<1>2. CASE Exit(w)
  BY <1>2 DEF Exit, WorkerStep
<1>3. CASE Exists(w)
  BY <1>3 DEF Exists, Finish, WorkerStep
<1>4. CASE Scrape(w)
  BY <1>4 DEF Scrape, ScrapeArticle, Finish, WorkerStep
<1>5. CASE SetKey(w)
  <2>1. HashOf(wjob[w]) \in Hash
    BY <1>5, PipelineAssumption DEF SetKey
  <2> QED BY <1>5, <2>1 DEF SetKey, Mark, Finish, WorkerStep
<1>6. CASE Send(w)
  <2>1. [job |-> wjob[w], outcome |-> wres[w]] \in Result
    BY <1>6 DEF Send, Result
  <2>2. results' \in Seq(Result)
    BY <1>6, <2>1 DEF Send
  <2> QED BY <1>6, <2>2 DEF Send, Forget, WorkerStep
<1>7. CASE Drop(w)
  <2>1. [job |-> wjob[w], outcome |-> wres[w]] \in Result
    BY <1>7 DEF Drop, Result
  <2> QED BY <1>7, <2>1 DEF Drop, Forget, WorkerStep
<1> QED BY <1>1, <1>2, <1>3, <1>4, <1>5, <1>6, <1>7 DEF WorkerStep

\* Collecting a result keeps the types.
LEMMA CollectType == TypeInv /\ Collect => TypeInv'
<1> SUFFICES ASSUME TypeInv, Collect PROVE TypeInv'
  OBVIOUS
<1> USE DEF TypeInv, TypeOK, ControlOK, feederVars, workerVars, historyVars
<1>1. results' \in Seq(Result) /\ Head(results) \in Result
  BY HeadTailType DEF Collect
<1>2. Head(results).job \in Job
  BY <1>1 DEF Result
<1>3. articles' \in Seq(Job) /\ errs' \in Seq(Job)
  BY <1>2, AppendType DEF Collect
<1> QED BY <1>1, <1>3 DEF Collect

\* Type correctness is inductive.
LEMMA NextType == TypeInv /\ [Next]_vars => TypeInv'
<1> SUFFICES ASSUME TypeInv, [Next]_vars PROVE TypeInv'
  OBVIOUS
<1>1. CASE Feeder
  BY <1>1, FeederType
<1>2. CASE \E w \in Worker : WorkerStep(w)
  BY <1>2, WorkerType
<1>3. CASE Collect
  BY <1>3, CollectType
<1>4. CASE CloseResults \/ Return \/ Cancel \/ OtherRunMarks \/ UNCHANGED vars
  BY <1>4 DEF CloseResults, Return, Cancel, OtherRunMarks, vars, TypeInv, TypeOK, ControlOK,
     feederVars, workerVars, callerVars, historyVars
<1> QED BY <1>1, <1>2, <1>3, <1>4 DEF Next, Caller

\* Type correctness: the variables of a run always have the types of TypeOK.
THEOREM TypeCorrect == Spec => []TypeOK
<1>1. TypeInv => TypeOK
  BY DEF TypeInv
<1> QED BY <1>1, InitType, NextType, PTL DEF Spec

-----------------------------------------------------------------------------
(* The results channel.                                                    *)

ChannelInv ==
  /\ resultsClosed => \A w \in Worker : wpc[w] = "exited"
  /\ returned => resultsClosed /\ results = <<>>

LEMMA NextChannel == TypeInv /\ ChannelInv /\ [Next]_vars => ChannelInv'
<1> SUFFICES ASSUME TypeInv, ChannelInv, [Next]_vars PROVE ChannelInv'
  OBVIOUS
<1> USE DEF ChannelInv, feederVars, workerVars, callerVars, historyVars
<1>1. CASE Feeder
  BY <1>1 DEF Feeder
<1>2. CASE \E w \in Worker : WorkerStep(w)
  <2> PICK w \in Worker : WorkerStep(w)
    BY <1>2
  <2>1. wpc[w] # "exited" /\ ~resultsClosed /\ ~returned
    BY DEF WorkerStep, Take, Exit, Exists, Scrape, SetKey, Send, Drop
  <2> QED BY <2>1 DEF WorkerStep
<1>3. CASE CloseResults \/ Return \/ Cancel \/ OtherRunMarks \/ UNCHANGED vars
  BY <1>3 DEF CloseResults, Return, Cancel, OtherRunMarks, vars, AllExited, Drained
<1>4. CASE Collect
  BY <1>4 DEF Collect
<1> QED BY <1>1, <1>2, <1>3, <1>4 DEF Next, Caller

\* No worker is about to send when the results channel is closed.
THEOREM NeverSendAfterClose == Spec => []NoSendAfterClose
<1>1. Init => ChannelInv
  BY DEF Init, ChannelInv
<1>2. ChannelInv => NoSendAfterClose
  BY DEF ChannelInv, NoSendAfterClose
<1> QED BY <1>1, <1>2, InitType, NextType, NextChannel, PTL DEF Spec

-----------------------------------------------------------------------------
(* Where the article of a marked URL is.                                   *)

IsArticle(r, h) == r.outcome = "article" /\ HashOf(r.job) = h

AtWorker(h)   == \E w \in Worker : wpc[w] = "send" /\ wres[w] = "article" /\ HashOf(wjob[w]) = h
InResults(h)  == \E k \in 1 .. Len(results) : IsArticle(results[k], h)
InArticles(h) == \E k \in 1 .. Len(articles) : HashOf(articles[k]) = h
InLost(h)     == \E r \in lost : IsArticle(r, h)

MarkedInv ==
  /\ \A h \in marked : AtWorker(h) \/ InResults(h) \/ InArticles(h) \/ InLost(h)
  /\ lost # {} => ctxDone

\* Appending keeps what was there and adds the new element at the end.
LEMMA AppendElems ==
  ASSUME NEW S, NEW s \in Seq(S), NEW e \in S
  PROVE  /\ Len(Append(s, e)) = Len(s) + 1
         /\ Append(s, e)[Len(s) + 1] = e
         /\ \A k \in 1 .. Len(s) : Append(s, e)[k] = s[k]
  OBVIOUS

\* Every element of a sequence is its head or in its tail.
LEMMA HeadTailElems ==
  ASSUME NEW S, NEW s \in Seq(S), s # <<>>
  PROVE  /\ Len(Tail(s)) = Len(s) - 1 /\ Head(s) = s[1] /\ Len(s) \in Nat \ {0}
         /\ \A k \in 1 .. Len(s) - 1 : Tail(s)[k] = s[k + 1]
  OBVIOUS

LEMMA NextMarked == TypeInv /\ MarkedInv /\ [Next]_vars => MarkedInv'
<1> SUFFICES ASSUME TypeInv, MarkedInv, [Next]_vars PROVE MarkedInv'
  OBVIOUS
<1> USE DEF feederVars, workerVars, callerVars, historyVars
<1>1. CASE Feeder \/ CloseResults \/ Return \/ Cancel \/ OtherRunMarks \/ UNCHANGED vars
  BY <1>1 DEF Feeder, CloseResults, Return, Cancel, OtherRunMarks, vars, MarkedInv,
     AtWorker, InResults, InArticles, InLost
<1>2. CASE Collect
  <2>0. Head(results) \in Result /\ articles \in Seq(Job)
    BY <1>2, HeadTailType DEF Collect, TypeInv, TypeOK
  <2>a. Head(results).job \in Job
    BY <2>0 DEF Result
  <2>1. \A h : InArticles(h) => InArticles(h)'
    <3>1. Len(articles) <= Len(articles') /\ Len(articles') \in Nat /\ Len(articles) \in Nat
          /\ \A k \in 1 .. Len(articles) : articles'[k] = articles[k]
      <4>1. articles' = articles \/ articles' = Append(articles, Head(results).job)
        BY <1>2 DEF Collect
      <4>2. Len(articles) \in Nat /\ Len(Append(articles, Head(results).job)) = Len(articles) + 1
            /\ \A k \in 1 .. Len(articles) : Append(articles, Head(results).job)[k] = articles[k]
        BY <2>0, <2>a, AppendElems
      <4> QED BY <4>1, <4>2
    <3> QED BY <3>1 DEF InArticles
  <2>2. ASSUME NEW h, InResults(h) PROVE InResults(h)' \/ InArticles(h)'
    <3>1. PICK k \in 1 .. Len(results) : IsArticle(results[k], h)
      BY <2>2 DEF InResults
    <3>2. results # <<>> /\ results \in Seq(Result)
      BY <1>2 DEF Collect, TypeInv, TypeOK
    <3>3. CASE k = 1
      <4>1. Head(results).outcome = "article" /\ HashOf(Head(results).job) = h
        BY <3>1, <3>2, <3>3, HeadTailElems DEF IsArticle
      <4>3. articles' = Append(articles, Head(results).job)
        BY <1>2, <4>1 DEF Collect
      <4>4. Len(articles') = Len(articles) + 1 /\ articles'[Len(articles) + 1] = Head(results).job
        BY <2>0, <2>a, <4>3, AppendElems
      <4>5. Len(articles) + 1 \in 1 .. Len(articles')
        BY <2>0, <4>4
      <4> QED BY <4>1, <4>4, <4>5 DEF InArticles
    <3>4. CASE k # 1
      <4>1. /\ results' = Tail(results) /\ k - 1 \in 1 .. Len(results) - 1
            /\ Len(results') = Len(results) - 1 /\ results'[k - 1] = results[k]
        BY <1>2, <3>2, <3>4, HeadTailElems DEF Collect
      <4>2. k - 1 \in 1 .. Len(results')
        BY <4>1
      <4>3. IsArticle(results'[k - 1], h)
        BY <3>1, <4>1
      <4> QED BY <4>2, <4>3 DEF InResults
    <3> QED BY <3>3, <3>4
  <2> QED BY <1>2, <2>1, <2>2 DEF Collect, MarkedInv, AtWorker, InLost
<1>3. ASSUME NEW w \in Worker, WorkerStep(w) PROVE MarkedInv'
  <2> USE <1>3 DEF Goto
  <2>1. UNCHANGED articles /\ UNCHANGED ctxDone
    BY DEF WorkerStep
  <2>2. CASE Take(w) \/ Exit(w) \/ Exists(w) \/ Scrape(w)
    <3>1. UNCHANGED <<results, lost, marked>>
      BY <2>2 DEF Take, Exit, Exists, Scrape
    <3>2. wpc[w] # "send" /\ \A v \in Worker \ {w} :
            wpc'[v] = wpc[v] /\ wjob'[v] = wjob[v] /\ wres'[v] = wres[v]
      BY <2>2 DEF Take, Exit, Exists, Scrape, ScrapeArticle, Finish, TypeInv, TypeOK
    <3> QED BY <2>1, <3>1, <3>2 DEF MarkedInv, AtWorker, InResults, InArticles, InLost
  <2>3. CASE SetKey(w)
    <3>1. /\ UNCHANGED <<results, lost>> /\ wpc[w] = "set"
          /\ wpc'[w] = "send" /\ wres'[w] = "article" /\ wjob' = wjob
          /\ \A v \in Worker \ {w} : wpc'[v] = wpc[v] /\ wres'[v] = wres[v]
          /\ marked' \subseteq marked \cup {HashOf(wjob[w])}
      BY <2>3 DEF SetKey, Mark, Finish, TypeInv, TypeOK
    <3> QED BY <2>1, <3>1 DEF MarkedInv, AtWorker, InResults, InArticles, InLost
  <2>4. CASE Send(w)
    <3> DEFINE r == [job |-> wjob[w], outcome |-> wres[w]]
    <3>1. /\ UNCHANGED <<lost, marked>> /\ results' = Append(results, r) /\ wpc[w] = "send"
          /\ \A v \in Worker \ {w} :
               wpc'[v] = wpc[v] /\ wjob'[v] = wjob[v] /\ wres'[v] = wres[v]
      BY <2>4 DEF Send, Forget, TypeInv, TypeOK
    <3>2. r \in Result /\ results \in Seq(Result)
      BY <3>1 DEF TypeInv, TypeOK, ControlOK, Result, Busy
    <3> HIDE DEF r
    <3>3. /\ Len(results') = Len(results) + 1 /\ results'[Len(results) + 1] = r
          /\ \A k \in 1 .. Len(results) : results'[k] = results[k]
          /\ Len(results) \in Nat
      BY <3>1, <3>2, AppendElems
    <3>4. \A h : InResults(h) \/ IsArticle(r, h) => InResults(h)'
      BY <3>3 DEF InResults
    <3>5. \A h : AtWorker(h) => AtWorker(h)' \/ IsArticle(r, h)
      BY <3>1 DEF AtWorker, IsArticle, r
    <3> QED BY <2>1, <3>1, <3>4, <3>5 DEF MarkedInv, InArticles, InLost
  <2>5. CASE Drop(w)
    <3> DEFINE r == [job |-> wjob[w], outcome |-> wres[w]]
    <3>1. /\ UNCHANGED <<results, marked>> /\ lost' = lost \cup {r} /\ ctxDone
          /\ \A v \in Worker \ {w} :
               wpc'[v] = wpc[v] /\ wjob'[v] = wjob[v] /\ wres'[v] = wres[v]
      BY <2>5 DEF Drop, Forget, TypeInv, TypeOK
    <3>2. \A h : AtWorker(h) => AtWorker(h)' \/ IsArticle(r, h)
      BY <3>1 DEF AtWorker, IsArticle
    <3> HIDE DEF r
    <3>3. \A h : InLost(h) \/ IsArticle(r, h) => InLost(h)'
      BY <3>1 DEF InLost
    <3> QED BY <2>1, <3>1, <3>2, <3>3 DEF MarkedInv, InResults, InArticles
  <2> QED BY <2>2, <2>3, <2>4, <2>5 DEF WorkerStep
<1> QED BY <1>1, <1>2, <1>3 DEF Next, Caller

\* A run that was not cancelled returns an article for every URL it has marked
\* in the deduplication cache.
THEOREM MarkedAlwaysReturned == Spec => []MarkedIsReturned
<1>1. Init => ChannelInv /\ MarkedInv
  BY DEF Init, ChannelInv, MarkedInv
<1>2. TypeInv /\ ChannelInv /\ MarkedInv => MarkedIsReturned
  <2> SUFFICES ASSUME TypeInv, ChannelInv, MarkedInv, returned, ~ctxDone, NEW h \in marked
               PROVE  h \in ReportedURLs
    BY DEF MarkedIsReturned
  <2>1. InArticles(h)
    BY DEF ChannelInv, MarkedInv, AtWorker, InResults, InLost
  <2> QED BY <2>1 DEF InArticles, ReportedURLs, Range, TypeInv, TypeOK
<1> QED BY <1>1, <1>2, InitType, NextType, NextChannel, NextMarked, PTL DEF Spec

-----------------------------------------------------------------------------
(* Where a job is: nowhere twice, and somewhere if it was accepted.         *)

\* The feeder is past the jobs it has submitted.
FeedInv ==
  /\ \A j \in accepted : j[1] < fsrc \/ (j[1] = fsrc /\ j[2] < fitem)
  /\ fpc = "source" => fitem = 1

\* The producer only moves forward through the sources and their items.
LEMMA NextFeed == TypeInv /\ FeedInv /\ [Next]_vars => FeedInv'
<1> SUFFICES ASSUME TypeInv, FeedInv, [Next]_vars PROVE FeedInv'
  OBVIOUS
<1>1. CASE UNCHANGED <<feederVars, accepted>>
  BY <1>1 DEF FeedInv, feederVars
<1>2. CASE Feeder
  <2>1. \A j \in accepted : j[1] \in Nat /\ j[2] \in Nat \ {0}
    BY PipelineAssumption DEF TypeInv, TypeOK, Job, Source
  <2>2. fsrc \in Nat /\ fitem \in Nat \ {0}
    BY PipelineAssumption DEF TypeInv, TypeOK
  <2>3. CASE Submit
    <3>1. accepted' = accepted \cup {<<fsrc, fitem>>}
      BY <2>3 DEF Submit
    <3>2. \/ fitem' = fitem + 1 /\ fsrc' = fsrc /\ fpc' = "submit"
          \/ fitem' = 1 /\ fsrc' = fsrc + 1 /\ fpc' = "source"
      BY <2>3 DEF Submit, NextItem
    <3>3. \A j \in accepted' : j[1] < fsrc' \/ (j[1] = fsrc' /\ j[2] < fitem')
      BY <2>1, <2>2, <3>1, <3>2 DEF FeedInv
    <3> QED BY <3>2, <3>3 DEF FeedInv
  <2>4. CASE (FeederCancelled \/ FeederDone \/ SubmitCancelled) /\ UNCHANGED accepted
    BY <2>4 DEF FeederCancelled, FeederDone, SubmitCancelled, CloseJobs, FeedInv
  <2>5. CASE ParseFeed /\ UNCHANGED accepted
    <3>1. fpc = "source" /\ fitem' = 1
          /\ \/ fsrc' = fsrc + 1 /\ fpc' = "source"
             \/ fsrc' = fsrc /\ fpc' = "submit"
      <4>1. fpc = "source" => fitem = 1
        BY DEF FeedInv
      <4>2. PICK n \in FeedItems :
              IF n = 0 THEN fsrc' = fsrc + 1 /\ UNCHANGED <<fpc, fitem, flen>>
                       ELSE fpc' = "submit" /\ fitem' = 1 /\ flen' = Cut(n) /\ UNCHANGED fsrc
        BY <2>5 DEF ParseFeed
      <4>3. fpc = "source"
        BY <2>5 DEF ParseFeed
      <4> QED BY ONLY <4>1, <4>2, <4>3
    <3>2. \A j \in accepted : j[1] < fsrc
      BY <2>1, <3>1 DEF FeedInv
    <3>3. \A j \in accepted' : j[1] < fsrc'
      BY <2>1, <2>2, <2>5, <3>1, <3>2
    <3> QED BY <3>1, <3>3 DEF FeedInv
  <2> QED BY <1>2, <2>3, <2>4, <2>5 DEF Feeder
<1>3. CASE \E w \in Worker : WorkerStep(w)
  BY <1>1, <1>3 DEF WorkerStep
<1>4. CASE CloseResults \/ Caller \/ Cancel \/ OtherRunMarks \/ UNCHANGED vars
  BY <1>1, <1>4 DEF CloseResults, Caller, Collect, Return, Cancel, OtherRunMarks, vars, historyVars
<1> QED BY <1>2, <1>3, <1>4 DEF Next

\* Sequences without repetition.
Distinct(s) == \A k, m \in 1 .. Len(s) : s[k] = s[m] => k = m
Elems(s)    == {s[k] : k \in 1 .. Len(s)}

\* Appending what is not there keeps a sequence free of repeats.
LEMMA AppendDistinct ==
  ASSUME NEW S, NEW s \in Seq(S), NEW e \in S, Distinct(s), e \notin Elems(s)
  PROVE  Distinct(Append(s, e)) /\ Elems(Append(s, e)) = Elems(s) \cup {e}
<1> DEFINE t == Append(s, e)
<1>1. /\ Len(t) = Len(s) + 1 /\ Len(s) \in Nat /\ t[Len(s) + 1] = e
      /\ \A k \in 1 .. Len(s) : t[k] = s[k]
  BY AppendElems
<1>2. \A k \in 1 .. Len(t) : k \in 1 .. Len(s) \/ k = Len(s) + 1
  BY <1>1
<1> HIDE DEF t
<1>3. Distinct(t)
  BY <1>1, <1>2 DEF Distinct, Elems
<1>4. Elems(t) = Elems(s) \cup {e}
  BY <1>1, <1>2 DEF Elems
<1> QED BY <1>3, <1>4 DEF t

\* The head of a sequence without repeats is not in its tail.
LEMMA TailDistinct ==
  ASSUME NEW S, NEW s \in Seq(S), s # <<>>, Distinct(s)
  PROVE  /\ Distinct(Tail(s)) /\ Head(s) \notin Elems(Tail(s))
         /\ Elems(s) = Elems(Tail(s)) \cup {Head(s)}
<1> DEFINE t == Tail(s)
<1>1. /\ Len(t) = Len(s) - 1 /\ Len(s) \in Nat \ {0} /\ Head(s) = s[1]
      /\ \A k \in 1 .. Len(t) : t[k] = s[k + 1]
  BY HeadTailElems
<1>2. \A k \in 1 .. Len(s) : k = 1 \/ k - 1 \in 1 .. Len(t)
  BY <1>1
<1>3. \A k \in 1 .. Len(t) : k + 1 \in 1 .. Len(s) /\ k + 1 # 1
  BY <1>1
<1> HIDE DEF t
<1>4. Distinct(t)
  BY <1>1, <1>3 DEF Distinct
<1>5. Head(s) \notin Elems(t)
  BY <1>1, <1>3 DEF Distinct, Elems
<1>6. Elems(s) \subseteq Elems(t) \cup {Head(s)}
  <2> SUFFICES ASSUME NEW k \in 1 .. Len(s) PROVE s[k] \in Elems(t) \cup {Head(s)}
    BY DEF Elems
  <2>1. CASE k # 1
    <3>1. k - 1 \in 1 .. Len(t) /\ t[k - 1] = s[k]
      BY <1>1, <1>2, <2>1
    <3> QED BY <3>1 DEF Elems
  <2> QED BY <1>1, <2>1
<1>7. Elems(t) \cup {Head(s)} \subseteq Elems(s)
  BY <1>1, <1>3 DEF Elems
<1> QED BY <1>4, <1>5, <1>6, <1>7 DEF t

\* The jobs of a sequence of results.
JobsOf(s) == [k \in 1 .. Len(s) |-> s[k].job]

\* What a sequence of results is about is a sequence of jobs,
LEMMA JobsOfType ==
  ASSUME NEW s \in Seq(Result)
  PROVE  JobsOf(s) \in Seq(Job) /\ Len(JobsOf(s)) = Len(s)
<1>1. ASSUME NEW k \in 1 .. Len(s) PROVE s[k].job \in Job
  <2>1. s[k] \in Result
    BY LenProperties
  <2> QED BY <2>1 DEF Result
<1>2. Len(s) \in Nat
  OBVIOUS
<1> DEFINE f == [k \in 1 .. Len(s) |-> s[k].job]
<1>3. f \in [1 .. Len(s) -> Job]
  BY <1>1
<1>4. f \in Seq(Job)
  BY <1>2, <1>3, SeqDef
<1>5. Len(f) = Len(s)
  BY <1>2, <1>3, <1>4, LenProperties
<1> QED BY <1>4, <1>5 DEF JobsOf

\* to which a sent result adds its job,
LEMMA JobsOfAppend ==
  ASSUME NEW s \in Seq(Result), NEW r \in Result
  PROVE  JobsOf(Append(s, r)) = Append(JobsOf(s), r.job)
BY JobsOfType DEF JobsOf, Result

\* and from which a received one takes it.
LEMMA JobsOfTail ==
  ASSUME NEW s \in Seq(Result), s # <<>>
  PROVE  /\ JobsOf(Tail(s)) = Tail(JobsOf(s)) /\ Head(JobsOf(s)) = Head(s).job
         /\ JobsOf(s) # <<>>
<1>1. Tail(s) \in Seq(Result) /\ Len(s) \in Nat \ {0}
  BY HeadTailType, HeadTailElems
<1> QED BY <1>1, JobsOfType, HeadTailElems DEF JobsOf

\* The places: the jobs channel, the workers, the results channel, the caller's lists.
InHand  == {wjob[w] : w \in {v \in Worker : wpc[v] \in Busy}}
Waiting == Elems(JobsOf(results))
Settled == Elems(articles) \cup Elems(errs)

OneHand ==
  \A v, w \in Worker : wpc[v] \in Busy /\ wpc[w] \in Busy /\ wjob[v] = wjob[w] => v = w

NoRepeats == Distinct(jobs) /\ Distinct(JobsOf(results)) /\ Distinct(articles) /\ Distinct(errs)

Apart ==
  /\ Elems(jobs) \cap InHand = {} /\ Elems(jobs) \cap Waiting = {} /\ Elems(jobs) \cap Settled = {}
  /\ InHand \cap Waiting = {} /\ InHand \cap Settled = {} /\ Waiting \cap Settled = {}
  /\ Elems(articles) \cap Elems(errs) = {}

Placed == Elems(jobs) \cup InHand \cup Waiting \cup Settled

PlaceInv ==
  /\ OneHand /\ NoRepeats /\ Apart
  /\ Placed \subseteq accepted /\ (ctxDone \/ accepted \subseteq Placed)

\* The item that the feeder submits is a new one.
LEMMA NewItem ==
  TypeInv /\ FeedInv /\ Submit => <<fsrc, fitem>> \in Job /\ <<fsrc, fitem>> \notin accepted
<1> SUFFICES ASSUME TypeInv, FeedInv, Submit
             PROVE  <<fsrc, fitem>> \in Job /\ <<fsrc, fitem>> \notin accepted
  OBVIOUS
<1>1. <<fsrc, fitem>> \in Job
  BY PipelineAssumption DEF Submit, Job, Source, TypeInv, TypeOK, ControlOK
<1>2. <<fsrc, fitem>> \notin accepted
  BY PipelineAssumption DEF FeedInv, TypeInv, TypeOK
<1> QED BY <1>1, <1>2

\* What only the channels and lists determine.
LEMMA SamePlaces ==
  ASSUME PlaceInv, UNCHANGED <<jobs, results, articles, errs>>
  PROVE  /\ Waiting' = Waiting /\ Settled' = Settled /\ Elems(jobs)' = Elems(jobs)
         /\ Elems(articles)' = Elems(articles) /\ Elems(errs)' = Elems(errs) /\ NoRepeats'
<1>1. Waiting' = Waiting /\ Distinct(JobsOf(results))'
  <2>1. JobsOf(results)' = JobsOf(results)
    BY DEF JobsOf
  <2>2. Distinct(JobsOf(results))'
    BY <2>1 DEF PlaceInv, NoRepeats, Distinct
  <2>3. Waiting' = Waiting
    BY <2>1 DEF Waiting, Elems
  <2> QED BY <2>2, <2>3
<1>2. Elems(jobs)' = Elems(jobs) /\ Elems(articles)' = Elems(articles) /\ Elems(errs)' = Elems(errs)
  BY DEF Elems
<1>3. Distinct(jobs)' /\ Distinct(articles)' /\ Distinct(errs)'
  BY DEF PlaceInv, NoRepeats, Distinct
<1> QED BY <1>1, <1>2, <1>3 DEF Settled, NoRepeats

\* The producer puts a job that is nowhere yet into the jobs channel.
LEMMA SubmitPlace ==
  ASSUME TypeInv, FeedInv, PlaceInv, Feeder
  PROVE  PlaceInv'
<1> USE DEF feederVars, workerVars, callerVars
<1>1. UNCHANGED <<wpc, wjob, results, articles, errs, ctxDone>>
  BY DEF Feeder
<1>2. /\ InHand' = InHand /\ Waiting' = Waiting /\ Settled' = Settled /\ OneHand'
      /\ Elems(articles)' = Elems(articles) /\ Elems(errs)' = Elems(errs)
      /\ Distinct(JobsOf(results))' /\ Distinct(articles)' /\ Distinct(errs)'
  BY <1>1 DEF InHand, Waiting, Settled, OneHand, PlaceInv, NoRepeats, Elems, JobsOf, Distinct
<1>3. CASE UNCHANGED <<jobs, accepted>>
  <2>1. Elems(jobs)' = Elems(jobs) /\ Distinct(jobs)'
    BY <1>3 DEF PlaceInv, NoRepeats, Elems, Distinct
  <2>2. Apart' /\ Placed' = Placed
    BY <1>2, <2>1 DEF PlaceInv, Apart, Placed
  <2> QED BY <1>1, <1>2, <1>3, <2>1, <2>2 DEF PlaceInv, NoRepeats
<1>4. CASE Submit
  <2> DEFINE j == <<fsrc, fitem>>
  <2>1. j \in Job /\ jobs \in Seq(Job)
    BY <1>4, NewItem DEF TypeInv, TypeOK
  <2>2. j \notin accepted
    BY <1>4, NewItem
  <2>3. jobs' = Append(jobs, j) /\ accepted' = accepted \cup {j}
    BY <1>4 DEF Submit
  <2> HIDE DEF j
  <2>4. j \notin Placed
    BY <2>2 DEF PlaceInv
  <2>5. Distinct(jobs') /\ Elems(jobs') = Elems(jobs) \cup {j}
    BY <2>1, <2>3, <2>4, AppendDistinct DEF PlaceInv, NoRepeats, Placed
  <2>6. Distinct(jobs)' /\ Elems(jobs)' = Elems(jobs) \cup {j}
    BY <2>5 DEF Distinct, Elems
  <2>7. j \notin Elems(jobs) /\ j \notin InHand /\ j \notin Waiting /\ j \notin Settled
    BY <2>4 DEF Placed
  <2>8. Apart'
    BY <1>2, <2>6, <2>7 DEF PlaceInv, Apart
  <2>9. Placed' = Placed \cup {j}
    BY <1>2, <2>6 DEF Placed
  <2> QED BY <1>1, <1>2, <2>3, <2>6, <2>8, <2>9 DEF PlaceInv, NoRepeats
<1> QED BY <1>3, <1>4 DEF Feeder

\* A worker that has a job before and after keeps it.
LEMMA BusyPlace ==
  ASSUME TypeInv, PlaceInv, NEW w \in Worker, WorkerStep(w),
         Exit(w) \/ Exists(w) \/ Scrape(w) \/ SetKey(w)
  PROVE  PlaceInv'
<1> USE DEF feederVars, callerVars
<1>1. UNCHANGED <<jobs, wjob, results, articles, errs, ctxDone, accepted>>
  BY DEF WorkerStep, Exit, Exists, Scrape, ScrapeArticle, SetKey, Finish
<1>2. \A v \in Worker : wpc'[v] \in Busy <=> wpc[v] \in Busy
  BY DEF Exit, Exists, Scrape, ScrapeArticle, SetKey, Finish, Goto, Busy, TypeInv, TypeOK
<1>3. InHand' = InHand /\ OneHand'
  BY <1>1, <1>2 DEF InHand, OneHand, PlaceInv
<1>4. /\ Waiting' = Waiting /\ Settled' = Settled /\ Elems(jobs)' = Elems(jobs)
      /\ Elems(articles)' = Elems(articles) /\ Elems(errs)' = Elems(errs) /\ NoRepeats'
  BY <1>1, SamePlaces
<1>5. Apart' /\ Placed' = Placed
  BY <1>3, <1>4 DEF PlaceInv, Apart, Placed
<1> QED BY <1>1, <1>3, <1>4, <1>5 DEF PlaceInv

\* A worker takes a job from the jobs channel into its hand.
LEMMA TakePlace ==
  ASSUME TypeInv, PlaceInv, NEW w \in Worker, WorkerStep(w), Take(w)
  PROVE  PlaceInv'
<1> USE DEF feederVars, callerVars
<1> DEFINE j == Head(jobs)
<1>1. UNCHANGED <<results, articles, errs, ctxDone, accepted>>
  BY DEF WorkerStep, Take
<1>2. /\ jobs \in Seq(Job) /\ jobs # <<>> /\ jobs' = Tail(jobs) /\ wpc[w] = "idle"
      /\ wpc'[w] = "exists" /\ wjob'[w] = j
      /\ \A v \in Worker \ {w} : wpc'[v] = wpc[v] /\ wjob'[v] = wjob[v]
  BY DEF Take, Goto, TypeInv, TypeOK
<1>3. Distinct(jobs') /\ j \notin Elems(jobs') /\ Elems(jobs) = Elems(jobs') \cup {j}
  BY <1>2, TailDistinct DEF PlaceInv, NoRepeats
<1> HIDE DEF j
<1>4. \A v \in Worker : wpc[v] \in Busy => v # w
  BY <1>2 DEF Busy
<1>5. InHand' = InHand \cup {j}
  BY <1>2, <1>4 DEF InHand, Busy
<1>6. OneHand'
  <2>1. j \notin InHand
    BY <1>3 DEF PlaceInv, Apart
  <2> QED BY <1>2, <2>1 DEF InHand, OneHand, PlaceInv
<1>7. /\ Waiting' = Waiting /\ Settled' = Settled
      /\ Elems(articles)' = Elems(articles) /\ Elems(errs)' = Elems(errs)
      /\ Distinct(JobsOf(results))' /\ Distinct(articles)' /\ Distinct(errs)'
  BY <1>1 DEF Waiting, Settled, PlaceInv, NoRepeats, Elems, JobsOf, Distinct
<1>e. Elems(jobs)' = Elems(jobs')
  BY DEF Elems
<1>8. Apart'
  BY <1>3, <1>5, <1>7, <1>e DEF PlaceInv, Apart
<1>9. Placed' = Placed
  BY <1>3, <1>5, <1>7, <1>e DEF Placed
<1> QED BY <1>1, <1>3, <1>6, <1>7, <1>8, <1>9 DEF PlaceInv, NoRepeats, Distinct

\* The worker that lets go of its job was the only one to have it.
LEMMA LetGo ==
  ASSUME TypeInv, PlaceInv, NEW w \in Worker, wpc[w] \in Busy, wpc'[w] \notin Busy,
         \A v \in Worker \ {w} : wpc'[v] = wpc[v] /\ wjob'[v] = wjob[v]
  PROVE  OneHand' /\ InHand' = InHand \ {wjob[w]} /\ wjob[w] \in InHand
<1>1. OneHand'
  BY DEF OneHand, PlaceInv
<1>2. wjob[w] \in InHand
  BY DEF InHand
<1>3. \A v \in Worker : wpc'[v] \in Busy <=> v # w /\ wpc[v] \in Busy
  OBVIOUS
<1>4. \A v \in Worker : v # w /\ wpc[v] \in Busy => wjob[v] # wjob[w]
  BY DEF OneHand, PlaceInv
<1>5. InHand' = InHand \ {wjob[w]}
  BY <1>3, <1>4 DEF InHand
<1> QED BY <1>1, <1>2, <1>5

\* It puts the job it holds into the results channel,
LEMMA SendPlace ==
  ASSUME TypeInv, PlaceInv, NEW w \in Worker, WorkerStep(w), Send(w)
  PROVE  PlaceInv'
<1> USE DEF feederVars, callerVars
<1> DEFINE r == [job |-> wjob[w], outcome |-> wres[w]]
<1>1. UNCHANGED <<jobs, articles, errs, ctxDone, accepted>>
  BY DEF WorkerStep, Send
<1>2. /\ results' = Append(results, r) /\ wpc[w] = "send" /\ wpc'[w] = "idle"
      /\ \A v \in Worker \ {w} : wpc'[v] = wpc[v] /\ wjob'[v] = wjob[v]
  BY DEF Send, Forget, Goto, TypeInv, TypeOK
<1>3. OneHand' /\ InHand' = InHand \ {wjob[w]} /\ wjob[w] \in InHand
  BY <1>2, LetGo DEF Busy
<1>4. r \in Result /\ results \in Seq(Result) /\ r.job = wjob[w] /\ wjob[w] \in Job
  BY <1>2 DEF TypeInv, TypeOK, ControlOK, Result, Busy
<1> HIDE DEF r
<1>5. JobsOf(results') = Append(JobsOf(results), wjob[w]) /\ JobsOf(results) \in Seq(Job)
  BY <1>2, <1>4, JobsOfAppend, JobsOfType
<1>6. wjob[w] \notin Waiting
  BY <1>3 DEF PlaceInv, Apart
<1>7. Distinct(JobsOf(results')) /\ Elems(JobsOf(results')) = Waiting \cup {wjob[w]}
  BY <1>4, <1>5, <1>6, AppendDistinct DEF PlaceInv, NoRepeats, Waiting
<1>8. Waiting' = Waiting \cup {wjob[w]} /\ Distinct(JobsOf(results))'
  BY <1>7 DEF Waiting, Elems, JobsOf, Distinct
<1>9. /\ Settled' = Settled /\ Elems(jobs)' = Elems(jobs)
      /\ Elems(articles)' = Elems(articles) /\ Elems(errs)' = Elems(errs)
      /\ Distinct(jobs)' /\ Distinct(articles)' /\ Distinct(errs)'
  BY <1>1 DEF Settled, PlaceInv, NoRepeats, Elems, Distinct
<1>10. Apart'
  BY <1>3, <1>8, <1>9 DEF PlaceInv, Apart
<1>11. Placed' = Placed
  BY <1>3, <1>8, <1>9 DEF Placed
<1> QED BY <1>1, <1>3, <1>8, <1>9, <1>10, <1>11 DEF PlaceInv, NoRepeats

\* or drops it when the run is cancelled: then the job is nowhere.
LEMMA DropPlace ==
  ASSUME TypeInv, PlaceInv, NEW w \in Worker, WorkerStep(w), Drop(w)
  PROVE  PlaceInv'
<1> USE DEF feederVars, callerVars
<1>1. UNCHANGED <<jobs, results, articles, errs, ctxDone, accepted>> /\ ctxDone
  BY DEF WorkerStep, Drop
<1>2. /\ wpc[w] = "send" /\ wpc'[w] = "exited"
      /\ \A v \in Worker \ {w} : wpc'[v] = wpc[v] /\ wjob'[v] = wjob[v]
  BY DEF Drop, Forget, Goto, TypeInv, TypeOK
<1>3. OneHand' /\ InHand' \subseteq InHand
  BY <1>2, LetGo DEF Busy
<1>4. /\ Waiting' = Waiting /\ Settled' = Settled /\ Elems(jobs)' = Elems(jobs)
      /\ Elems(articles)' = Elems(articles) /\ Elems(errs)' = Elems(errs) /\ NoRepeats'
  BY <1>1, SamePlaces
<1>5. Apart' /\ Placed' \subseteq Placed
  BY <1>3, <1>4 DEF PlaceInv, Apart, Placed
<1> QED BY <1>1, <1>3, <1>4, <1>5 DEF PlaceInv

\* The caller moves a job from the results channel to one of its lists.
LEMMA CollectPlace ==
  ASSUME TypeInv, PlaceInv, Collect
  PROVE  PlaceInv'
<1> USE DEF feederVars, workerVars, historyVars
<1> DEFINE r == Head(results)
           j == r.job
<1>1. UNCHANGED <<jobs, wpc, wjob, ctxDone, accepted>>
  BY DEF Collect
<1>2. results \in Seq(Result) /\ results # <<>> /\ results' = Tail(results)
  BY DEF Collect, TypeInv, TypeOK
<1>3. j \in Job
  <2>1. r \in Result
    BY <1>2, HeadTailType
  <2> QED BY <2>1 DEF Result
<1>4. /\ JobsOf(results') = Tail(JobsOf(results)) /\ Head(JobsOf(results)) = j
      /\ JobsOf(results) # <<>> /\ JobsOf(results) \in Seq(Job)
  BY <1>2, JobsOfTail, JobsOfType
<1>5. \/ articles' = Append(articles, j) /\ errs' = errs
      \/ articles' = articles /\ errs' = Append(errs, j)
  BY DEF Collect
<1> HIDE DEF r, j
<1>6. /\ Distinct(JobsOf(results')) /\ j \notin Elems(JobsOf(results'))
      /\ Waiting = Elems(JobsOf(results')) \cup {j}
  BY <1>4, TailDistinct DEF PlaceInv, NoRepeats, Waiting
<1>7. Waiting' = Waiting \ {j} /\ j \in Waiting /\ Distinct(JobsOf(results))'
  BY <1>6 DEF Waiting, Elems, JobsOf, Distinct
<1>8. /\ InHand' = InHand /\ OneHand' /\ Elems(jobs)' = Elems(jobs) /\ Distinct(jobs)'
  BY <1>1 DEF InHand, OneHand, PlaceInv, NoRepeats, Elems, Distinct
<1>9. j \notin Elems(articles) /\ j \notin Elems(errs) /\ j \notin Elems(jobs) /\ j \notin InHand
  BY <1>7 DEF PlaceInv, Apart, Settled
<1>10. articles \in Seq(Job) /\ errs \in Seq(Job)
  BY DEF TypeInv, TypeOK
<1>11. /\ Distinct(articles)' /\ Distinct(errs)'
       /\ \/ Elems(articles)' = Elems(articles) \cup {j} /\ Elems(errs)' = Elems(errs)
          \/ Elems(articles)' = Elems(articles) /\ Elems(errs)' = Elems(errs) \cup {j}
  <2>1. Distinct(articles) /\ Distinct(errs)
    BY DEF PlaceInv, NoRepeats
  <2>2. CASE articles' = Append(articles, j) /\ errs' = errs
    <3>1. Distinct(articles') /\ Elems(articles') = Elems(articles) \cup {j}
      BY <1>3, <1>9, <1>10, <2>1, <2>2, AppendDistinct
    <3> QED BY <2>1, <2>2, <3>1 DEF Distinct, Elems
  <2>3. CASE articles' = articles /\ errs' = Append(errs, j)
    <3>1. Distinct(errs') /\ Elems(errs') = Elems(errs) \cup {j}
      BY <1>3, <1>9, <1>10, <2>1, <2>3, AppendDistinct
    <3> QED BY <2>1, <2>3, <3>1 DEF Distinct, Elems
  <2> QED BY <1>5, <2>2, <2>3
<1>12. Settled' = Settled \cup {j}
  BY <1>11 DEF Settled
<1>13. Apart'
  BY <1>7, <1>8, <1>9, <1>11, <1>12 DEF PlaceInv, Apart
<1>14. Placed' = Placed
  BY <1>7, <1>8, <1>12 DEF Placed
<1> QED BY <1>1, <1>7, <1>8, <1>11, <1>13, <1>14 DEF PlaceInv, NoRepeats

\* So no step makes a job be in two places.
LEMMA NextPlace == TypeInv /\ FeedInv /\ PlaceInv /\ [Next]_vars => PlaceInv'
<1> SUFFICES ASSUME TypeInv, FeedInv, PlaceInv, [Next]_vars PROVE PlaceInv'
  OBVIOUS
<1>1. CASE \E w \in Worker : WorkerStep(w)
  BY <1>1, BusyPlace, TakePlace, SendPlace, DropPlace DEF WorkerStep
<1>2. CASE CloseResults \/ Return \/ Cancel \/ OtherRunMarks \/ UNCHANGED vars
  <2>1. UNCHANGED <<jobs, wpc, wjob, results, articles, errs, accepted>> /\ (ctxDone => ctxDone')
    BY <1>2 DEF CloseResults, Return, Cancel, OtherRunMarks, vars, feederVars, workerVars,
       callerVars, historyVars
  <2>2. /\ InHand' = InHand /\ Waiting' = Waiting /\ Settled' = Settled /\ OneHand' /\ NoRepeats'
        /\ Elems(jobs)' = Elems(jobs)
        /\ Elems(articles)' = Elems(articles) /\ Elems(errs)' = Elems(errs)
    <3>1. InHand' = InHand /\ OneHand'
      BY <2>1 DEF InHand, OneHand, PlaceInv
    <3>2. JobsOf(results)' = JobsOf(results)
      BY <2>1 DEF JobsOf
    <3>3. Waiting' = Waiting
      BY <3>2 DEF Waiting, Elems
    <3>4. /\ Elems(jobs)' = Elems(jobs)
          /\ Elems(articles)' = Elems(articles) /\ Elems(errs)' = Elems(errs)
      BY <2>1 DEF Elems
    <3>5. Settled' = Settled
      BY <3>4 DEF Settled
    <3>6. Distinct(jobs)' /\ Distinct(articles)' /\ Distinct(errs)'
      BY <2>1 DEF Distinct, PlaceInv, NoRepeats
    <3>7. Distinct(JobsOf(results))'
      BY <3>2 DEF Distinct, PlaceInv, NoRepeats
    <3> QED BY <3>1, <3>3, <3>4, <3>5, <3>6, <3>7 DEF NoRepeats
  <2>3. Apart' /\ Placed' = Placed
    BY <2>2 DEF PlaceInv, Apart, Placed
  <2> QED BY <2>1, <2>2, <2>3 DEF PlaceInv
<1> QED BY <1>1, <1>2, SubmitPlace, CollectPlace DEF Next, Caller

\* At the start no job is anywhere.
LEMMA InitPlace == Init => FeedInv /\ PlaceInv
<1> SUFFICES ASSUME Init PROVE FeedInv /\ PlaceInv
  OBVIOUS
<1> USE DEF Init
<1>1. FeedInv
  BY DEF FeedInv
<1>2. InHand = {} /\ OneHand
  BY DEF InHand, OneHand, Busy
<1>3. \A s : s = <<>> => Elems(s) = {} /\ Distinct(s)
  BY DEF Elems, Distinct
<1>4. JobsOf(results) = <<>>
  BY DEF JobsOf
<1> QED BY <1>1, <1>2, <1>3, <1>4 DEF PlaceInv, NoRepeats, Apart, Placed, Waiting, Settled

\* A submitted feed item is never reported twice, by whatever workers and in whatever
\* order: it is in one place at a time, and none gives it to two others.
THEOREM NeverReportedTwice == Spec => []OneResultPerJob
<1>1. TypeInv /\ PlaceInv => OneResultPerJob
  <2> SUFFICES ASSUME TypeInv, PlaceInv,
                      NEW k \in 1 .. Len(articles \o errs), NEW m \in 1 .. Len(articles \o errs),
                      (articles \o errs)[k] = (articles \o errs)[m]
               PROVE  k = m
    BY DEF OneResultPerJob
  <2>1. articles \in Seq(Job) /\ errs \in Seq(Job)
    BY DEF TypeInv, TypeOK
  <2>2. /\ Len(articles) \in Nat /\ Len(errs) \in Nat
        /\ k \in 1 .. Len(articles) + Len(errs) /\ m \in 1 .. Len(articles) + Len(errs)
        /\ \A i \in 1 .. Len(articles) + Len(errs) :
             (articles \o errs)[i] = IF i <= Len(articles) THEN articles[i] ELSE errs[i - Len(articles)]
    BY <2>1, ConcatProperties, LenProperties
  <2>3. \A i \in 1 .. Len(articles) + Len(errs) :
          IF i <= Len(articles) THEN i \in 1 .. Len(articles) ELSE i - Len(articles) \in 1 .. Len(errs)
    BY <2>2
  <2>4. Distinct(articles) /\ Distinct(errs) /\ Elems(articles) \cap Elems(errs) = {}
    BY DEF PlaceInv, NoRepeats, Apart
  <2>5. CASE k <= Len(articles) /\ m <= Len(articles)
    BY <2>2, <2>3, <2>4, <2>5 DEF Distinct
  <2>6. CASE k > Len(articles) /\ m > Len(articles)
    <3>1. /\ k - Len(articles) \in 1 .. Len(errs) /\ m - Len(articles) \in 1 .. Len(errs)
          /\ errs[k - Len(articles)] = errs[m - Len(articles)]
      BY <2>2, <2>3, <2>6
    <3>2. k - Len(articles) = m - Len(articles)
      BY <2>4, <3>1 DEF Distinct
    <3> QED BY <2>2, <3>2
  <2>7. ASSUME NEW i \in 1 .. Len(articles) + Len(errs), NEW n \in 1 .. Len(articles) + Len(errs),
               i <= Len(articles), n > Len(articles)
        PROVE  (articles \o errs)[i] # (articles \o errs)[n]
    <3>1. i \in 1 .. Len(articles) /\ (articles \o errs)[i] = articles[i]
      BY <2>2, <2>7
    <3>2. n - Len(articles) \in 1 .. Len(errs) /\ (articles \o errs)[n] = errs[n - Len(articles)]
      BY <2>2, <2>7
    <3>3. articles[i] \in Elems(articles) /\ errs[n - Len(articles)] \in Elems(errs)
      BY <3>1, <3>2 DEF Elems
    <3> QED BY <2>4, <3>1, <3>2, <3>3
  <2> QED BY <2>2, <2>5, <2>6, <2>7
<1> QED BY <1>1, InitType, InitPlace, NextType, NextFeed, NextPlace, PTL DEF Spec

-----------------------------------------------------------------------------
(* Pipeline implements IngestRun.                                           *)

\* Without a cancel a worker leaves only when there is nothing to take any more.
ExitInv == \A w \in Worker : wpc[w] = "exited" => ctxDone \/ (fpc = "closed" /\ jobs = <<>>)

\* A worker exits on a cancel or on a closed and empty jobs channel.
LEMMA NextExit == TypeInv /\ ExitInv /\ [Next]_vars => ExitInv'
<1> SUFFICES ASSUME TypeInv, ExitInv, [Next]_vars PROVE ExitInv'
  OBVIOUS
<1>1. CASE Feeder
  <2>1. UNCHANGED <<wpc, ctxDone>>
    BY <1>1 DEF Feeder, workerVars
  <2>2. fpc = "closed" => UNCHANGED <<fpc, jobs>>
    BY <1>1 DEF Feeder, Submit, FeederCancelled, FeederDone, ParseFeed, SubmitCancelled
  <2> QED BY <2>1, <2>2 DEF ExitInv
<1>2. ASSUME NEW w \in Worker, WorkerStep(w) PROVE ExitInv'
  <2>1. UNCHANGED <<fpc, ctxDone>>
    BY <1>2 DEF WorkerStep, feederVars
  <2>2. CASE Take(w)
    <3>1. jobs # <<>> /\ \A v \in Worker : wpc'[v] = "exited" => wpc[v] = "exited"
      BY <2>2 DEF Take, Goto, TypeInv, TypeOK
    <3> QED BY <2>1, <3>1 DEF ExitInv
  <2>3. CASE Exit(w)
    <3>1. UNCHANGED jobs /\ (ctxDone \/ (fpc = "closed" /\ jobs = <<>>))
      BY <2>3 DEF Exit, MayExit
    <3> QED BY <2>1, <3>1 DEF ExitInv
  <2>4. CASE Exists(w) \/ Scrape(w) \/ SetKey(w) \/ Send(w)
    <3>1. UNCHANGED jobs /\ \A v \in Worker : wpc'[v] = "exited" => wpc[v] = "exited"
      BY <2>4 DEF Exists, Scrape, ScrapeArticle, SetKey, Send, Finish, Goto, TypeInv, TypeOK
    <3> QED BY <2>1, <3>1 DEF ExitInv
  <2>5. CASE Drop(w)
    BY <2>1, <2>5 DEF Drop, ExitInv
  <2> QED BY <1>2, <2>2, <2>3, <2>4, <2>5 DEF WorkerStep
<1>3. CASE CloseResults \/ Caller \/ Cancel \/ OtherRunMarks \/ UNCHANGED vars
  BY <1>3 DEF CloseResults, Caller, Collect, Return, Cancel, OtherRunMarks, vars, ExitInv,
     feederVars, workerVars
<1> QED BY <1>1, <1>2, <1>3 DEF Next

RunInv == TypeInv /\ ChannelInv /\ FeedInv /\ PlaceInv /\ ExitInv

\* The library's Range of a sequence is the set of its elements.
LEMMA RangeIsElems == ASSUME NEW S, NEW s \in Seq(S) PROVE Range(s) = Elems(s)
BY LenProperties DEF Range, Elems

\* When the caller has drained the results of an uncancelled run, no job is underway.
LEMMA AllSettled == RunInv /\ Drained => ctxDone \/ (fpc = "closed" /\ Settled = accepted)
<1> SUFFICES ASSUME RunInv, Drained, ~ctxDone PROVE fpc = "closed" /\ Settled = accepted
  OBVIOUS
<1>1. /\ \A w \in Worker : wpc[w] = "exited"
      /\ results = <<>>
  BY DEF RunInv, ChannelInv, Drained
<1>2. fpc = "closed" /\ jobs = <<>>
  BY <1>1, PipelineAssumption DEF RunInv, ExitInv
<1>3. InHand = {}
  BY <1>1 DEF InHand, Busy
<1>4. Elems(jobs) = {} /\ Waiting = {}
  BY <1>1, <1>2 DEF Elems, Waiting, JobsOf
<1> QED BY <1>2, <1>3, <1>4 DEF RunInv, PlaceInv, Placed

\* Every step of the pipeline is a step of the abstract run or a stutter.
LEMMA RunStep == RunInv /\ RunInv' /\ [Next]_vars => [Run!Next]_Run!vars
<1> SUFFICES ASSUME RunInv, RunInv', [Next]_vars PROVE [Run!Next]_Run!vars
  OBVIOUS
<1> DEFINE ok == Range(articles)
           ko == Range(errs)
<1>1. /\ ok = Elems(articles) /\ ko = Elems(errs)
      /\ ok' = Elems(articles)' /\ ko' = Elems(errs)'
  <2>1. articles \in Seq(Job) /\ errs \in Seq(Job) /\ articles' \in Seq(Job) /\ errs' \in Seq(Job)
    BY DEF RunInv, TypeInv, TypeOK
  <2>2. /\ ok = Elems(articles) /\ ko = Elems(errs)
        /\ Range(articles') = Elems(articles') /\ Range(errs') = Elems(errs')
    BY <2>1, RangeIsElems
  <2> QED BY ONLY <2>2 DEF Range, Elems
<1>2. CASE Feeder
  <2>1. UNCHANGED <<articles, errs, ctxDone, returned>>
    BY <1>2 DEF Feeder, callerVars
  <2>2. CASE Submit
    <3>1. <<fsrc, fitem>> \in Job /\ <<fsrc, fitem>> \notin accepted
      BY <2>2, NewItem DEF RunInv
    <3>2. /\ accepted' = accepted \cup {<<fsrc, fitem>>}
          /\ fpc # "closed" /\ fpc' # "closed"
      BY <2>2 DEF Submit, NextItem
    <3>3. Run!Accept(<<fsrc, fitem>>)
      BY <2>1, <3>1, <3>2 DEF Run!Accept
    <3> QED BY <3>1, <3>3 DEF Run!Next
  <2>3. CASE (FeederCancelled \/ FeederDone \/ SubmitCancelled) /\ UNCHANGED accepted
    <3>1. fpc # "closed" /\ fpc' = "closed"
      BY <2>3 DEF FeederCancelled, FeederDone, SubmitCancelled, CloseJobs
    <3>2. Run!Close
      BY <2>1, <2>3, <3>1 DEF Run!Close
    <3> QED BY <3>2 DEF Run!Next
  <2>4. CASE ParseFeed /\ UNCHANGED accepted
    <3>1. fpc # "closed" /\ fpc' # "closed"
      BY <2>4 DEF ParseFeed
    <3> QED BY <2>1, <2>4, <3>1 DEF Run!vars
  <2> QED BY <1>2, <2>2, <2>3, <2>4 DEF Feeder
<1>3. CASE \E w \in Worker : WorkerStep(w)
  <2>1. UNCHANGED <<articles, errs, ctxDone, returned, fpc, accepted>>
    BY <1>3 DEF WorkerStep, callerVars, feederVars
  <2> QED BY <2>1 DEF Run!vars
<1>4. CASE Collect
  <2> DEFINE j == Head(results).job
  <2>1. UNCHANGED <<ctxDone, returned, fpc, accepted>> /\ ~returned
    BY <1>4 DEF Collect, feederVars, historyVars, RunInv, ChannelInv
  <2>2. j \in Waiting
    <3>1. results \in Seq(Result) /\ results # <<>>
      BY <1>4 DEF Collect, RunInv, TypeInv, TypeOK
    <3>2. JobsOf(results) \in Seq(Job) /\ JobsOf(results) # <<>> /\ Head(JobsOf(results)) = j
      BY <3>1, JobsOfTail, JobsOfType
    <3> QED BY <3>2, HeadTailElems DEF Waiting, Elems
  <2>3. j \in accepted /\ j \notin Settled /\ j \in Job
    BY <2>2 DEF RunInv, PlaceInv, Apart, Placed, TypeInv, TypeOK
  <2>4. articles \in Seq(Job) /\ errs \in Seq(Job)
    BY DEF RunInv, TypeInv, TypeOK
  <2>5. CASE articles' = Append(articles, j) /\ errs' = errs
    <3> HIDE DEF j
    <3>1. ok' = ok \cup {j} /\ ko' = ko
      BY <1>1, <2>3, <2>4, <2>5, AppendDistinct DEF RunInv, PlaceInv, NoRepeats, Settled, Elems
    <3>2. Run!Succeed(j)
      BY <1>1, <2>1, <2>3, <3>1 DEF Run!Succeed, Run!Settled, Settled
    <3> QED BY <2>3, <3>2 DEF Run!Next
  <2>6. CASE articles' = articles /\ errs' = Append(errs, j)
    <3> HIDE DEF j
    <3>1. ko' = ko \cup {j} /\ ok' = ok
      BY <1>1, <2>3, <2>4, <2>6, AppendDistinct DEF RunInv, PlaceInv, NoRepeats, Settled, Elems
    <3>2. Run!Fail(j)
      BY <1>1, <2>1, <2>3, <3>1 DEF Run!Fail, Run!Settled, Settled
    <3> QED BY <2>3, <3>2 DEF Run!Next
  <2> QED BY <1>4, <2>5, <2>6 DEF Collect
<1>5. CASE Return
  <2>1. /\ UNCHANGED <<articles, errs, ctxDone, fpc, accepted>>
        /\ Drained /\ ~returned /\ returned'
    BY <1>5 DEF Return, feederVars, historyVars
  <2>2. ctxDone \/ (fpc = "closed" /\ Settled = accepted)
    BY <2>1, AllSettled
  <2>3. Run!Return
    BY <1>1, <2>1, <2>2 DEF Run!Return, Run!Settled, Settled, RunInv, TypeInv, TypeOK
  <2> QED BY <2>3 DEF Run!Next
<1>6. CASE Cancel
  <2>1. Run!Cancel
    BY <1>6 DEF Cancel, Run!Cancel, feederVars, callerVars, historyVars
  <2> QED BY <2>1 DEF Run!Next
<1>7. CASE CloseResults \/ OtherRunMarks \/ UNCHANGED vars
  <2>1. UNCHANGED <<articles, errs, ctxDone, returned, fpc, accepted>>
    BY <1>7 DEF CloseResults, OtherRunMarks, vars, callerVars, feederVars, historyVars
  <2> QED BY <2>1 DEF Run!vars
<1> QED BY <1>2, <1>3, <1>4, <1>5, <1>6, <1>7 DEF Next, Caller

\* Pipeline.Run keeps what IngestRun promises, with any number of workers: accepted
\* jobs are settled once, and an uncancelled run returns with all of them settled.
THEOREM RunImplemented == Spec => ImplementsRun
<1>1. Init => RunInv /\ Run!Init
  <2> SUFFICES ASSUME Init PROVE RunInv /\ Run!Init
    OBVIOUS
  <2>1. ChannelInv /\ ExitInv
    BY DEF Init, ChannelInv, ExitInv
  <2>2. Range(articles) = {} /\ Range(errs) = {}
    BY DEF Init, Range
  <2> QED BY <2>1, <2>2, InitType, InitPlace DEF Init, RunInv, Run!Init
<1>2. RunInv /\ [Next]_vars => RunInv'
  BY NextType, NextChannel, NextFeed, NextPlace, NextExit DEF RunInv
<1> QED BY <1>1, <1>2, RunStep, PTL DEF Spec, ImplementsRun, Run!Spec

-----------------------------------------------------------------------------
(* What the caller of Run can rely on, carried over from IngestRun.        *)

\* In the abstract run, nothing is left to settle when it returns uncancelled.
Promise ==
  /\ Run!Settled \subseteq accepted
  /\ Range(articles) \cap Range(errs) = {}
  /\ returned /\ ~ctxDone => fpc = "closed" /\ Run!Settled = accepted

LEMMA PromiseKept == ImplementsRun => []Promise
<1> USE DEF Promise, Run!Settled
<1>1. Run!Init => Promise
  BY DEF Run!Init
<1>2. Promise /\ [Run!Next]_Run!vars => Promise'
  <2> SUFFICES ASSUME Promise, [Run!Next]_Run!vars PROVE Promise'
    OBVIOUS
  <2>1. ASSUME NEW j \in Job, Run!Accept(j) PROVE Promise'
    BY <2>1 DEF Run!Accept
  <2>2. ASSUME NEW j \in Job, Run!Succeed(j) PROVE Promise'
    BY <2>2 DEF Run!Succeed
  <2>3. ASSUME NEW j \in Job, Run!Fail(j) PROVE Promise'
    BY <2>3 DEF Run!Fail
  <2>4. CASE Run!Close
    BY <2>4 DEF Run!Close
  <2>5. CASE Run!Cancel
    BY <2>5 DEF Run!Cancel
  <2>6. CASE Run!Return
    BY <2>6 DEF Run!Return
  <2>7. CASE UNCHANGED Run!vars
    BY <2>7 DEF Run!vars
  <2> QED BY <2>1, <2>2, <2>3, <2>4, <2>5, <2>6, <2>7 DEF Run!Next
<1> QED BY <1>1, <1>2, PTL DEF ImplementsRun, Run!Spec

\* An uncancelled run reports every item that was handed to the workers, as an
\* article or as an error and never as both: the log line of pipeline.go that counts
\* the two counts them all.
AllReported ==
  /\ Range(articles) \cap Range(errs) = {}
  /\ returned /\ ~ctxDone => Range(articles) \cup Range(errs) = accepted

THEOREM UncancelledReportsAll == Spec => []AllReported
<1>1. Promise => AllReported
  BY DEF Promise, AllReported, Run!Settled
<1> QED BY <1>1, RunImplemented, PromiseKept, PTL

\* What has been returned is never added to.
THEOREM ReturnedIsFinal == Spec => [][returned => UNCHANGED <<Range(articles), Range(errs)>>]_vars
<1> DEFINE Final == returned => UNCHANGED <<Range(articles), Range(errs)>>
<1>1. [Run!Next]_Run!vars => Final
  BY DEF Run!Next, Run!Accept, Run!Succeed, Run!Fail, Run!Close, Run!Cancel, Run!Return, Run!vars
<1>2. ImplementsRun => [][Run!Next]_Run!vars
  BY PTL DEF ImplementsRun, Run!Spec
<1> HIDE DEF Final
<1>3. ImplementsRun => [][Final]_vars
  BY <1>1, <1>2, PTL
<1> QED BY <1>3, RunImplemented, PTL DEF Final
=============================================================================
