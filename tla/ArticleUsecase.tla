--------------------------- MODULE ArticleUsecase ---------------------------
(***************************************************************************)
(* Ingest and ReprocessUnanalyzed of usecase/article_usecase.go over the   *)
(* tables they write (repository/postgres/article_repo.go, stock_repo.go). *)
(* Every statement is a transaction of its own and may fail; between two   *)
(* statements any other call may run, and the server may crash.  The cron  *)
(* job and the HTTP handler call Ingest without knowing of each other, so  *)
(* calls of all kinds overlap.                                             *)
(***************************************************************************)
EXTENDS Integers, Sequences, FiniteSets, Functions

CONSTANTS
  Ingests,       \* calls of Ingest
  Reprocesses,   \* callers of ReprocessUnanalyzed, each may call again
  NumArticles,   \* articles 1 .. NumArticles, in the order of ingested_at
  GivenTo(_),    \* the article each Ingest is called with
  HashOf(_),     \* url_hash of an article
  Symbol,        \* tickers the LLM may name
  Blacklisted,   \* those sector.IsBlacklisted rejects
  Analyses,      \* the companies the LLM may name, as sequences of tickers
  Limit,         \* ListUnprocessed's LIMIT (10 in the code)
  Stuck,         \* articles that the LLM or the UPDATE may refuse for ever
  MaxCrashes     \* bound on server crashes

Article == 1 .. NumArticles
Call    == Ingests \cup Reprocesses

ASSUME UsecaseAssumption ==
  /\ NumArticles \in Nat /\ Limit \in Nat \ {0} /\ MaxCrashes \in Nat
  /\ Ingests \cap Reprocesses = {}
  /\ \A i \in Ingests : GivenTo(i) \in Article
  /\ Blacklisted \subseteq Symbol /\ Analyses \subseteq Seq(Symbol)

\* What SavedIsAnalysed needs: Stuck has no part in the actions.
ASSUME StuckAssumption == Stuck \subseteq Article /\ Cardinality(Stuck) < Limit

\* Articles that an earlier run has saved and nobody has analysed yet.
Saved == Article \ {GivenTo(i) : i \in Ingests}

VARIABLES
  row,      \* news_articles: "absent", "pending" (processed_at is null), "analysed"
  shown,    \* the analysis each row was last updated with
  tags,     \* news_stock_tags: <<article, symbol>>
  stocks,   \* symbols in stocks
  execs,    \* symbols some row of executives refers to
  pc,       \* where each call is
  art,      \* the article it is working on, 0 for none
  ana,      \* the companies of the analysis it holds
  todo,     \* those of them still to be upserted
  built,    \* the tags it has built
  batch,    \* articles a reprocess call still has to visit
  faulted,  \* history: articles with a failed statement or cut off by a crash
  crashes   \* crashes so far

db    == <<row, shown, tags, stocks, execs>>
local == <<pc, art, ana, todo, built, batch>>
vars  == <<db, local, faulted, crashes>>

PC == {"create", "next", "analyze", "update", "upsert", "tags", "ended"}

TypeOK ==
  /\ row \in [Article -> {"absent", "pending", "analysed"}]
  /\ shown \in [Article -> Analyses \cup {<<>>}]
  /\ tags \in SUBSET (Article \X Symbol)
  /\ stocks \in SUBSET Symbol /\ execs \in SUBSET Symbol
  /\ pc \in [Call -> PC]
  /\ \A c \in Call : pc[c] \in (IF c \in Ingests THEN PC \ {"next"} ELSE PC \ {"create"})
  /\ art \in [Call -> Article \cup {0}]
  /\ ana \in [Call -> Analyses \cup {<<>>}]
  /\ todo \in [Call -> Seq(Symbol)] /\ built \in [Call -> Seq(Symbol)]
  /\ batch \in [Call -> SUBSET Article]
  /\ faulted \in SUBSET Article
  /\ crashes \in 0 .. MaxCrashes

Init ==
  /\ row = [a \in Article |-> IF a \in Saved THEN "pending" ELSE "absent"]
  /\ shown = [a \in Article |-> <<>>]
  /\ tags = {} /\ stocks = {} /\ execs = {}
  /\ pc = [c \in Call |-> IF c \in Ingests THEN "create" ELSE "ended"]
  /\ art = [c \in Call |-> IF c \in Ingests THEN GivenTo(c) ELSE 0]
  /\ ana = [c \in Call |-> <<>>]
  /\ todo = [c \in Call |-> <<>>] /\ built = [c \in Call |-> <<>>]
  /\ batch = [c \in Call |-> {}]
  /\ faulted = {} /\ crashes = 0

Goto(c, l)  == pc' = [pc EXCEPT ![c] = l]
At(c, l)    == pc[c] = l
Fault(c)    == faulted' = faulted \cup {art[c]}

\* Mutation: a batch returns where it should continue.
Bug_AfterArticle(c) == "ended"

AfterArticle(c) == IF c \in Ingests THEN "ended" ELSE "next"

\* The call is done with its article: Ingest returns, the batch goes on.
Leave(c) == /\ Goto(c, AfterArticle(c))
            /\ ana' = [ana EXCEPT ![c] = <<>>]
            /\ todo' = [todo EXCEPT ![c] = <<>>]
            /\ built' = [built EXCEPT ![c] = <<>>]
            /\ UNCHANGED <<art, batch>>

-----------------------------------------------------------------------------
(* The statements of the repositories, when they succeed.                   *)

Taken(a) == \E b \in Article : row[b] # "absent" /\ HashOf(b) = HashOf(a)

\* INSERT under the UNIQUE constraint on url_hash; processed_at is null.
InsertArticle(a) == ~Taken(a) /\ row' = [row EXCEPT ![a] = "pending"]

\* Score, label and processed_at in one UPDATE.
UpdateArticle(a, an) == /\ row' = [row EXCEPT ![a] = "analysed"]
                        /\ shown' = [shown EXCEPT ![a] = an]

\* INSERT ... ON CONFLICT (symbol) DO UPDATE
UpsertStockRow(s) == stocks' = stocks \cup {s}

\* The foreign key rejects a symbol that is not in stocks.
UpsertExecutiveRow(s) == s \in stocks /\ execs' = execs \cup {s}

NoRepeat(s) == IsInjective(s)

\* One INSERT ... ON CONFLICT DO UPDATE of all the tags: PostgreSQL rejects the
\* statement as a whole when it proposes the same key twice.
InsertTags(a, ss) == NoRepeat(ss) /\ tags' = tags \cup ({a} \X Range(ss))

-----------------------------------------------------------------------------
(* Ingest, step 1.                                                          *)

Create(c) ==
  /\ At(c, "create")
  /\ \/ InsertArticle(art[c]) /\ Goto(c, "analyze")
     \/ Goto(c, "ended") /\ UNCHANGED row
  /\ UNCHANGED <<shown, tags, stocks, execs, art, ana, todo, built, batch, faulted, crashes>>

-----------------------------------------------------------------------------
(* ReprocessUnanalyzed: the batch.                                          *)

Unprocessed == {a \in Article : row[a] = "pending"}

\* ORDER BY ingested_at DESC LIMIT $1
Newest(S) == {a \in S : Cardinality({b \in S : b > a}) < Limit}

\* A client calls Reprocess; the error of ListUnprocessed ends the call.
List(c) ==
  /\ c \in Reprocesses /\ At(c, "ended")
  /\ batch' = [batch EXCEPT ![c] = Newest(Unprocessed)]
  /\ Goto(c, "next")
  /\ UNCHANGED <<db, art, ana, todo, built, faulted, crashes>>

\* The next article of the batch, or the end of it; a cancelled context ends
\* the call between two articles.
NextArticle(c) ==
  /\ At(c, "next")
  /\ \/ \E a \in batch[c] :
          /\ \A b \in batch[c] : b <= a
          /\ art' = [art EXCEPT ![c] = a]
          /\ batch' = [batch EXCEPT ![c] = @ \ {a}]
          /\ Goto(c, "analyze")
     \/ /\ batch[c] = {} \/ art[c] # 0
        /\ art' = [art EXCEPT ![c] = 0]
        /\ batch' = [batch EXCEPT ![c] = {}]
        /\ Goto(c, "ended")
  /\ UNCHANGED <<db, ana, todo, built, faulted, crashes>>

-----------------------------------------------------------------------------
(* The analysis of one article, the same in both.                           *)

\* Mutation: the tags are stored before the article is updated.
Bug_AfterAnalyze == "upsert"

AfterAnalyze == "update"

\* The LLM answers with some analysis.
AnalyzeOK(c) ==
  /\ At(c, "analyze")
  /\ \E an \in Analyses : /\ ana' = [ana EXCEPT ![c] = an]
                          /\ todo' = [todo EXCEPT ![c] = an]
  /\ Goto(c, AfterAnalyze)
  /\ UNCHANGED <<db, art, built, batch, faulted, crashes>>

\* The LLM fails: the article stays as it was saved.
AnalyzeFails(c) == /\ At(c, "analyze") /\ Leave(c)
                   /\ UNCHANGED <<db, faulted, crashes>>

Update(c) ==
  /\ At(c, "update")
  /\ \/ /\ UpdateArticle(art[c], ana[c])
        /\ Goto(c, "upsert")
        /\ UNCHANGED <<art, ana, todo, built, batch, faulted>>
     \/ Leave(c) /\ Fault(c) /\ UNCHANGED <<row, shown>>
  /\ UNCHANGED <<tags, stocks, execs, crashes>>

\* Mutation: the blacklist is not consulted.
Bug_Skipped(s) == FALSE

Skipped(s) == s \in Blacklisted

\* Mutation: a blacklisted company ends the loop, break for continue.
Bug_MoreCompanies(c) == todo[c] # <<>> /\ Head(todo[c]) \notin Blacklisted

MoreCompanies(c) == todo[c] # <<>>

\* One company of the analysis: skipped, or its stock upserted and its tag
\* built; a failed upsert costs the tag.
UpsertStock(c) ==
  /\ At(c, "upsert") /\ MoreCompanies(c)
  /\ todo' = [todo EXCEPT ![c] = Tail(@)]
  /\ LET s == Head(todo[c]) IN
       \/ Skipped(s) /\ UNCHANGED <<stocks, built, faulted>>
       \/ /\ ~Skipped(s)
          /\ UpsertStockRow(s)
          /\ built' = [built EXCEPT ![c] = Append(@, s)]
          /\ UNCHANGED faulted
       \/ ~Skipped(s) /\ Fault(c) /\ UNCHANGED <<stocks, built>>
  /\ UNCHANGED <<row, shown, tags, execs, pc, art, ana, batch, crashes>>

\* UpsertExecutive for the first company named, blacklisted or not; errors are
\* only logged.
UpsertExecutives(c) ==
  /\ At(c, "upsert") /\ ~MoreCompanies(c)
  /\ \/ ana[c] # <<>> /\ UpsertExecutiveRow(Head(ana[c]))
     \/ UNCHANGED execs
  /\ Goto(c, "tags")
  /\ UNCHANGED <<row, shown, tags, stocks, art, ana, todo, built, batch, faulted, crashes>>

CreateTags(c) ==
  /\ At(c, "tags") /\ Leave(c)
  /\ \/ built[c] = <<>> /\ UNCHANGED <<tags, faulted>>
     \/ /\ built[c] # <<>> /\ InsertTags(art[c], built[c])
        /\ UNCHANGED faulted
     \/ /\ built[c] # <<>> /\ ~NoRepeat(built[c])
        /\ UNCHANGED <<tags, faulted>>
     \/ built[c] # <<>> /\ Fault(c) /\ UNCHANGED tags
  /\ UNCHANGED <<row, shown, stocks, execs, crashes>>

\* The server goes down: the calls are gone, the tables stay.
Crash ==
  /\ crashes < MaxCrashes /\ crashes' = crashes + 1
  /\ faulted' = faulted \cup {art[c] : c \in {d \in Call : ~At(d, "ended") /\ art[d] # 0}}
  /\ pc' = [c \in Call |-> "ended"]
  /\ art' = [c \in Call |-> 0]
  /\ ana' = [c \in Call |-> <<>>]
  /\ todo' = [c \in Call |-> <<>>] /\ built' = [c \in Call |-> <<>>]
  /\ batch' = [c \in Call |-> {}]
  /\ UNCHANGED db

Step(c) == \/ Create(c) \/ NextArticle(c) \/ AnalyzeOK(c) \/ AnalyzeFails(c)
           \/ Update(c) \/ UpsertStock(c) \/ UpsertExecutives(c) \/ CreateTags(c)

Next == Crash \/ \E c \in Call : List(c) \/ Step(c)

Spec == Init /\ [][Next]_vars

-----------------------------------------------------------------------------
(* Properties.                                                             *)

Companies(a) == Range(shown[a]) \ Blacklisted
Analysed(a)  == row[a] = "analysed"
WorkedOn(a)  == \E c \in Call : art[c] = a /\ pc[c] \in {"update", "upsert", "tags"}

\* Tags hang on analysed articles only, whoever crashes or fails where: a client
\* never sees a tagged article without a score (article_usecase.go 96-188).
TagsOnlyOnAnalysed == \A t \in tags : Analysed(t[1])

\* An index or a non-issuer the LLM names is stored nowhere: not as a stock, not
\* in a tag, and, its symbol having no row in stocks, not with an executive
\* (article_usecase.go 117-120, 157-176).
BlacklistKept ==
  /\ stocks \cap Blacklisted = {} /\ execs \subseteq stocks
  /\ \A t \in tags : t[2] \in stocks

\* When nobody is working on an analysed article and no statement about it has
\* failed, it carries a tag for every company of the analysis it shows, even if
\* two calls have analysed it at the same time.
TagsComplete ==
  \A a \in Article :
    Analysed(a) /\ ~WorkedOn(a) /\ a \notin faulted /\ NoRepeat(shown[a]) =>
      \A s \in Companies(a) : <<a, s>> \in tags

\* The same of an analysis that names a company twice, which CreateTags "handles
\* gracefully" (article_repo.go:248).
RepeatsHandled ==
  \A a \in Article :
    Analysed(a) /\ ~WorkedOn(a) /\ a \notin faulted =>
      \A s \in Companies(a) : <<a, s>> \in tags

Waiting == {a \in Article \ Stuck : row[a] = "pending"}

\* Clients that keep calling Reprocess, and do not cancel it for ever, get every
\* saved article analysed, across crashes and failures: there always comes a time
\* when none is waiting but those that are refused for ever.  One of these at the
\* head of each batch does not keep the batch from the next article, and the LIMIT
\* on the newest (article_repo.go:168) lets the older ones in once the newer are
\* done.  This is so as long as fewer than LIMIT articles are refused for ever
\* (StuckAssumption) and there is an end to new ones: LIMIT refused ones, or a
\* stream of new ones, do starve whatever is older.
SavedIsAnalysed == []<>(Waiting = {})

\* What may not fail for ever: reaching an article of the batch before the client
\* cancels, and the LLM and the UPDATE for one that is not stuck.
Reach(c, a)     == NextArticle(c) /\ art'[c] = a
AnalyzeOf(c, a) == AnalyzeOK(c) /\ art[c] = a
UpdateOf(c, a)  == Update(c) /\ art[c] = a /\ row'[a] = "analysed"

FairSpec ==
  /\ Spec
  /\ \A c \in Call : WF_vars(Step(c))
  /\ \A c \in Reprocesses :
       /\ WF_vars(List(c))
       /\ \A a \in Article : SF_vars(Reach(c, a))
       /\ \A a \in Article \ Stuck : SF_vars(AnalyzeOf(c, a)) /\ SF_vars(UpdateOf(c, a))
=============================================================================
