--------------------------- MODULE AnalysisProofs ---------------------------
(***************************************************************************)
(* Theorems about the analysis of articles: the use case that stores it    *)
(* (ArticleUsecase), for any calls, articles, analyses and crashes, and the*)
(* analyzer it calls (GeminiAnalyzer), for any keys, models, callers, limits*)
(* and outages.                                                            *)
(***************************************************************************)
EXTENDS ArticleUsecase, GeminiAnalyzer, SequenceTheorems, TLAPS

Symbols == Seq(Symbol)

\* The types, and that a call in the middle of an article has one.
HasArticle(c) == pc[c] \notin {"next", "ended"} => art[c] \in Article
TypeInv       == TypeOK /\ \A c \in Call : HasArticle(c)

\* What the loop over the companies does to the two sequences it works with.
LEMMA TakeSymbol ==
  ASSUME NEW s \in Symbols, s # <<>>
  PROVE  /\ Head(s) \in Symbol /\ Tail(s) \in Symbols /\ Range(s) = Range(Tail(s)) \cup {Head(s)}
         /\ NoRepeat(s) => NoRepeat(Tail(s)) /\ Head(s) \notin Range(Tail(s))
<1> DEFINE t == Tail(s)
<1>1. /\ Len(t) = Len(s) - 1 /\ Len(s) \in Nat \ {0} /\ Head(s) = s[1]
      /\ \A k \in 1 .. Len(t) : t[k] = s[k + 1]
      /\ DOMAIN s = 1 .. Len(s) /\ DOMAIN t = 1 .. Len(t)
      /\ Head(s) \in Symbol /\ t \in Symbols
  BY DEF Symbols
<1> HIDE DEF t
<1>2. \A k \in 1 .. Len(s) : k = 1 \/ (k - 1 \in 1 .. Len(t) /\ s[k] = t[k - 1])
  <2> SUFFICES ASSUME NEW k \in 1 .. Len(s), k # 1
               PROVE  k - 1 \in 1 .. Len(t) /\ s[k] = t[k - 1]
    OBVIOUS
  <2>1. k - 1 \in 1 .. Len(t) /\ k - 1 + 1 = k
    BY <1>1
  <2> QED BY <1>1, <2>1
<1>3. \A k \in 1 .. Len(t) : k + 1 \in 1 .. Len(s) /\ k + 1 # 1
  BY <1>1
<1>4. 1 \in 1 .. Len(s)
  BY <1>1
<1>5. Range(s) = Range(t) \cup {Head(s)}
  <2>1. Range(s) = {s[k] : k \in 1 .. Len(s)} /\ Range(t) = {t[k] : k \in 1 .. Len(t)}
    BY <1>1 DEF Range
  <2>2. ASSUME NEW x \in Range(s) PROVE x \in Range(t) \cup {Head(s)}
    BY <1>1, <1>2, <2>1, <2>2
  <2>3. ASSUME NEW x \in Range(t) PROVE x \in Range(s)
    BY <1>1, <1>3, <2>1, <2>3
  <2>4. Head(s) \in Range(s)
    BY <1>1, <1>4, <2>1
  <2> QED BY <2>2, <2>3, <2>4
<1>6. ASSUME NoRepeat(s) PROVE NoRepeat(t) /\ Head(s) \notin Range(t)
  <2>1. \A k, m \in 1 .. Len(s) : s[k] = s[m] => k = m
    BY <1>1, <1>6 DEF NoRepeat, IsInjective
  <2>2. ASSUME NEW k \in 1 .. Len(t), NEW m \in 1 .. Len(t), t[k] = t[m] PROVE k = m
    <3>1. k + 1 = m + 1
      BY <1>1, <1>3, <2>1, <2>2
    <3> QED BY <1>1, <3>1
  <2>3. \A k \in 1 .. Len(t) : t[k] # s[1]
    BY <1>1, <1>3, <1>4, <2>1
  <2> QED BY <1>1, <2>2, <2>3 DEF NoRepeat, IsInjective, Range
<1> QED BY <1>1, <1>5, <1>6 DEF t

\* Appending a symbol.
LEMMA AddSymbol ==
  ASSUME NEW s \in Symbols, NEW e \in Symbol
  PROVE  /\ Append(s, e) \in Symbols /\ Range(Append(s, e)) = Range(s) \cup {e}
         /\ NoRepeat(s) /\ e \notin Range(s) => NoRepeat(Append(s, e))
<1> DEFINE t == Append(s, e)
<1>1. /\ Len(t) = Len(s) + 1 /\ Len(s) \in Nat /\ t[Len(s) + 1] = e
      /\ \A k \in 1 .. Len(s) : t[k] = s[k]
      /\ DOMAIN s = 1 .. Len(s) /\ DOMAIN t = 1 .. Len(s) + 1 /\ t \in Symbols
  BY DEF Symbols
<1> HIDE DEF t
<1>2. 1 .. Len(s) + 1 = (1 .. Len(s)) \cup {Len(s) + 1}
  BY <1>1
<1>3. Range(t) = Range(s) \cup {e}
  BY <1>1, <1>2 DEF Range
<1>4. NoRepeat(s) /\ e \notin Range(s) => NoRepeat(t)
  BY <1>1, <1>2 DEF NoRepeat, IsInjective, Range
<1> QED BY <1>1, <1>3, <1>4 DEF t

\* The empty sequence.
LEMMA NoSymbols == <<>> \in Symbols /\ Range(<<>>) = {} /\ NoRepeat(<<>>)
BY EmptySeq DEF Symbols, Range, NoRepeat, IsInjective

\* The initial states are well typed.
LEMMA InitType == Init => TypeInv
<1> SUFFICES ASSUME Init PROVE TypeInv
  OBVIOUS
<1>1. 0 \in 0 .. MaxCrashes
  BY UsecaseAssumption
<1> QED BY <1>1, UsecaseAssumption, NoSymbols
    DEF Init, TypeInv, TypeOK, HasArticle, Symbols, PC, Call

\* So are those after a step of a call.
LEMMA StepType ==
  ASSUME TypeInv, NEW c \in Call, List(c) \/ Step(c)
  PROVE  TypeInv'
<1> USE UsecaseAssumption DEF TypeInv, TypeOK, HasArticle, db, local, Goto, At, PC
<1>s. todo[c] \in Symbols /\ built[c] \in Symbols /\ Symbols = Seq(Symbol) /\ <<>> \in Symbols
  BY NoSymbols DEF Symbols
<1>0. \A l \in PC : pc' = [pc EXCEPT ![c] = l] /\ l \in (IF c \in Ingests THEN PC \ {"next"} ELSE PC \ {"create"})
        => /\ pc' \in [Call -> PC]
           /\ \A d \in Call : pc'[d] \in (IF d \in Ingests THEN PC \ {"next"} ELSE PC \ {"create"})
  OBVIOUS
<1>l. ASSUME Leave(c) PROVE /\ pc' \in [Call -> PC] /\ ana' \in [Call -> Analyses \cup {<<>>}]
                            /\ \A d \in Call : pc'[d] \in (IF d \in Ingests THEN PC \ {"next"} ELSE PC \ {"create"})
                            /\ todo' \in [Call -> Seq(Symbol)] /\ built' \in [Call -> Seq(Symbol)]
                            /\ UNCHANGED <<art, batch>> /\ \A d \in Call : HasArticle(d)'
  BY <1>l, <1>s DEF Leave, AfterArticle
<1>1. CASE Create(c)
  <2>1. c \in Ingests /\ art[c] \in Article
    BY <1>1 DEF Create
  <2>2. row' \in [Article -> {"absent", "pending", "analysed"}]
    BY <1>1, <2>1 DEF Create, InsertArticle
  <2>3. \E l \in {"analyze", "ended"} : pc' = [pc EXCEPT ![c] = l]
    BY <1>1 DEF Create
  <2>4. /\ UNCHANGED <<shown, tags, stocks, execs, art, ana, todo, built, batch, faulted, crashes>>
    BY <1>1 DEF Create
  <2>5. /\ pc' \in [Call -> PC]
        /\ \A d \in Call : pc'[d] \in (IF d \in Ingests THEN PC \ {"next"} ELSE PC \ {"create"})
    BY <2>3
  <2>6. \A d \in Call : HasArticle(d)'
    BY <2>1, <2>3, <2>4
  <2> QED BY <2>2, <2>4, <2>5, <2>6
<1>2. CASE List(c)
  <2>1. Newest(Unprocessed) \subseteq Article /\ c \notin Ingests
    BY <1>2 DEF List, Newest, Unprocessed
  <2>2. /\ pc' = [pc EXCEPT ![c] = "next"] /\ batch' = [batch EXCEPT ![c] = Newest(Unprocessed)]
        /\ UNCHANGED <<row, shown, tags, stocks, execs, art, ana, todo, built, faulted, crashes>>
    BY <1>2 DEF List
  <2>3. batch' \in [Call -> SUBSET Article]
    BY <2>1, <2>2
  <2>4. /\ pc' \in [Call -> PC] /\ \A d \in Call : HasArticle(d)'
        /\ \A d \in Call : pc'[d] \in (IF d \in Ingests THEN PC \ {"next"} ELSE PC \ {"create"})
    BY <2>1, <2>2
  <2> QED BY <2>2, <2>3, <2>4
<1>3. CASE NextArticle(c)
  <2>1. UNCHANGED <<row, shown, tags, stocks, execs, ana, todo, built, faulted, crashes>>
    BY <1>3 DEF NextArticle
  <2>2. c \notin Ingests /\ batch[c] \subseteq Article
    BY <1>3 DEF NextArticle
  <2>3. CASE \E a \in batch[c] : /\ art' = [art EXCEPT ![c] = a]
                                 /\ batch' = [batch EXCEPT ![c] = @ \ {a}] /\ Goto(c, "analyze")
    BY <2>1, <2>2, <2>3
  <2>4. CASE /\ art' = [art EXCEPT ![c] = 0]
             /\ batch' = [batch EXCEPT ![c] = {}] /\ Goto(c, "ended")
    BY <2>1, <2>2, <2>4
  <2> QED BY <1>3, <2>3, <2>4 DEF NextArticle
<1>4. CASE AnalyzeOK(c)
  BY <1>4, <1>s DEF AnalyzeOK, AfterAnalyze
<1>5. CASE AnalyzeFails(c)
  BY <1>5, <1>l DEF AnalyzeFails
<1>6. CASE Update(c)
  <2>1. art[c] \in Article
    BY <1>6 DEF Update
  <2>2. CASE Leave(c)
    <3>1. /\ UNCHANGED <<tags, stocks, execs, crashes>>
          /\ row' \in [Article -> {"absent", "pending", "analysed"}]
          /\ shown' \in [Article -> Analyses \cup {<<>>}]
      BY <1>6, <2>1 DEF Update, UpdateArticle
    <3>2. faulted' \in SUBSET Article
      BY <1>6, <2>1 DEF Update, Fault
    <3> QED BY <1>l, <2>2, <3>1, <3>2
  <2>3. CASE UpdateArticle(art[c], ana[c]) /\ Goto(c, "upsert")
             /\ UNCHANGED <<art, ana, todo, built, batch, faulted>>
    <3>1. /\ UNCHANGED <<tags, stocks, execs, crashes>>
          /\ row' \in [Article -> {"absent", "pending", "analysed"}]
          /\ shown' \in [Article -> Analyses \cup {<<>>}]
      BY <1>6, <2>1, <2>3 DEF Update, UpdateArticle
    <3>2. pc' = [pc EXCEPT ![c] = "upsert"] /\ "upsert" \in PC \ {"next", "create"}
      BY <2>3
    <3>3. pc' \in [Call -> PC] /\ \A d \in Call : d # c => pc'[d] = pc[d]
      BY <3>2
    <3> QED BY <2>1, <2>3, <3>1, <3>2, <3>3
  <2> QED BY <1>6, <2>2, <2>3 DEF Update
<1>7. CASE UpsertStock(c)
  <2>1. art[c] \in Article /\ Head(todo[c]) \in Symbol /\ Tail(todo[c]) \in Symbols
    BY <1>7, <1>s, TakeSymbol DEF UpsertStock, MoreCompanies
  <2>2. Append(built[c], Head(todo[c])) \in Symbols
    BY <1>s, <2>1, AddSymbol
  <2>3. todo' \in [Call -> Seq(Symbol)] /\ built' \in [Call -> Seq(Symbol)]
    <3>1. /\ todo' = [todo EXCEPT ![c] = Tail(todo[c])]
          /\ built' = built \/ built' = [built EXCEPT ![c] = Append(built[c], Head(todo[c]))]
      BY <1>7 DEF UpsertStock
    <3>2. /\ todo \in [Call -> Seq(Symbol)] /\ built \in [Call -> Seq(Symbol)]
          /\ Tail(todo[c]) \in Seq(Symbol) /\ Append(built[c], Head(todo[c])) \in Seq(Symbol)
      BY <1>s, <2>1, <2>2
    <3> DEFINE t == Tail(todo[c])
               b == Append(built[c], Head(todo[c]))
               Lists == Seq(Symbol)
    <3>3. /\ todo \in [Call -> Lists] /\ built \in [Call -> Lists] /\ t \in Lists /\ b \in Lists
          /\ todo' = [todo EXCEPT ![c] = t] /\ (built' = built \/ built' = [built EXCEPT ![c] = b])
      BY <3>1, <3>2
    <3> HIDE DEF t, b, Lists
    <3>4. todo' \in [Call -> Lists]
      BY <3>3
    <3>5. built' \in [Call -> Lists]
      BY <3>3
    <3> QED BY <3>4, <3>5 DEF Lists
  <2>4. stocks' \in SUBSET Symbol /\ faulted' \in SUBSET Article
    BY <1>7, <2>1 DEF UpsertStock, UpsertStockRow, Fault
  <2>5. UNCHANGED <<row, shown, tags, execs, pc, art, ana, batch, crashes>>
    BY <1>7 DEF UpsertStock
  <2> QED BY <2>3, <2>4, <2>5
<1>8. CASE UpsertExecutives(c)
  BY <1>8 DEF UpsertExecutives, UpsertExecutiveRow
<1>9. CASE CreateTags(c)
  <2>1. art[c] \in Article /\ Range(built[c]) \subseteq Symbol
    <3>1. \A k \in 1 .. Len(built[c]) : built[c][k] \in Symbol
      BY ElementOfSeq
    <3>2. DOMAIN built[c] = 1 .. Len(built[c])
      BY LenProperties
    <3>3. Range(built[c]) \subseteq Symbol
      BY <3>1, <3>2 DEF Range
    <3> QED BY <1>9, <3>3 DEF CreateTags
  <2> QED BY <1>9, <1>l, <2>1 DEF CreateTags, InsertTags, Fault
<1> QED BY <1>1, <1>2, <1>3, <1>4, <1>5, <1>6, <1>7, <1>8, <1>9 DEF Step

\* And after a crash.
LEMMA NextType == TypeInv /\ [Next]_vars => TypeInv'
<1> SUFFICES ASSUME TypeInv, [Next]_vars PROVE TypeInv'
  OBVIOUS
<1>1. CASE Crash
  <2>1. crashes' \in 0 .. MaxCrashes
    BY <1>1, UsecaseAssumption DEF Crash, TypeInv, TypeOK
  <2>2. faulted' \in SUBSET Article
    BY <1>1 DEF Crash, TypeInv, TypeOK
  <2> QED BY <1>1, <2>1, <2>2, NoSymbols DEF Crash, TypeInv, TypeOK, HasArticle, PC, db, Symbols
<1>2. CASE UNCHANGED vars
  BY <1>2 DEF vars, db, local, TypeInv, TypeOK, HasArticle
<1> QED BY <1>1, <1>2, StepType DEF Next

\* Type correctness of the tables and of the calls that write them.
THEOREM TypeCorrect == Spec => []TypeOK
<1>1. TypeInv => TypeOK
  BY DEF TypeInv
<1> QED BY <1>1, InitType, NextType, PTL DEF Spec
-----------------------------------------------------------------------------
(* What a call holds, and what the tables show.                            *)

Storing(c) == pc[c] \in {"upsert", "tags"}

\* The article a call stores an analysis of has been updated; what it has built is in
\* stocks; built and still to do make up the analysis, unless a statement has failed.
CallOK(c) ==
  /\ Storing(c) => Analysed(art[c])
  /\ Range(built[c]) \subseteq stocks
  /\ ~Storing(c) => built[c] = <<>>
  /\ pc[c] = "update" => todo[c] = ana[c]
  /\ pc[c] = "tags" => todo[c] = <<>>
  /\ Storing(c) /\ art[c] \notin faulted =>
       Range(ana[c]) \ Blacklisted \subseteq Range(built[c]) \cup Range(todo[c])
  /\ Storing(c) /\ NoRepeat(ana[c]) =>
       /\ NoRepeat(built[c]) /\ NoRepeat(todo[c])
       /\ Range(built[c]) \cap Range(todo[c]) = {}

\* An analysed article has its tags, or a call is about to store those of the analysis
\* it shows.
TagsOf(a)     == \A s \in Companies(a) : <<a, s>> \in tags
StoredBy(c, a) == art[c] = a /\ Storing(c) /\ ana[c] = shown[a]
Complete ==
  \A a \in Article :
    Analysed(a) /\ a \notin faulted /\ NoRepeat(shown[a]) =>
      TagsOf(a) \/ \E c \in Call : StoredBy(c, a)

TableInv == /\ TagsOnlyOnAnalysed /\ BlacklistKept /\ Complete
            /\ \A c \in Call : CallOK(c)

\* Nothing is taken out of the tables, and no analysis is undone.
Grows ==
  /\ \A a \in Article : Analysed(a) => Analysed(a)'
  /\ stocks \subseteq stocks' /\ faulted \subseteq faulted' /\ tags \subseteq tags'

\* Steps that let the tables grow and leave a call alone leave it in order.
LEMMA OthersOK ==
  ASSUME TypeInv, NEW d \in Call, CallOK(d), Grows,
         pc'[d] = pc[d], art'[d] = art[d], ana'[d] = ana[d], todo'[d] = todo[d],
         built'[d] = built[d]
  PROVE  CallOK(d)'
<1>1. Storing(d) => art[d] \in Article
  BY DEF TypeInv, HasArticle, Storing
<1> QED BY <1>1 DEF CallOK, Storing, Grows

\* Leave puts a call in order, and only it is touched.
LEMMA LeaveOK ==
  ASSUME TypeInv, NEW c \in Call, Leave(c)
  PROVE  CallOK(c)' /\ ~Storing(c)'
<1>1. pc'[c] \in {"ended", "next"} /\ built'[c] = <<>>
  BY DEF Leave, Goto, AfterArticle, TypeInv, TypeOK
<1> QED BY <1>1, NoSymbols DEF CallOK, Storing

\* The step of a call lets the tables grow and keeps to the call itself.
LEMMA StepShape ==
  ASSUME TypeInv, NEW c \in Call, List(c) \/ Step(c)
  PROVE  /\ Grows
         /\ \A d \in Call \ {c} : /\ pc'[d] = pc[d] /\ art'[d] = art[d] /\ ana'[d] = ana[d]
                                  /\ todo'[d] = todo[d] /\ built'[d] = built[d]
<1> USE DEF Goto, db, local
<1>0. \A a \in Article : InsertArticle(a) => \A b \in Article : Analysed(b) => Analysed(b)'
  BY DEF InsertArticle, Taken, Analysed, TypeInv, TypeOK
<1>1. CASE Create(c)
  BY <1>0, <1>1 DEF Create, At, Grows, Analysed, TypeInv, TypeOK, HasArticle
<1>2. CASE List(c) \/ NextArticle(c) \/ AnalyzeOK(c)
  BY <1>2 DEF List, NextArticle, AnalyzeOK, Grows, Analysed, TypeInv, TypeOK
<1>3. CASE AnalyzeFails(c)
  BY <1>3 DEF AnalyzeFails, Leave, Grows, Analysed, TypeInv, TypeOK
<1>4. CASE Update(c)
  BY <1>4 DEF Update, UpdateArticle, Leave, Fault, Grows, Analysed, TypeInv, TypeOK
<1>5. CASE UpsertStock(c)
  BY <1>5 DEF UpsertStock, UpsertStockRow, Fault, Grows, Analysed, TypeInv, TypeOK
<1>6. CASE UpsertExecutives(c)
  BY <1>6 DEF UpsertExecutives, Grows, Analysed, TypeInv, TypeOK
<1>7. CASE CreateTags(c)
  BY <1>7 DEF CreateTags, InsertTags, Leave, Fault, Grows, Analysed, TypeInv, TypeOK
<1> QED BY <1>1, <1>2, <1>3, <1>4, <1>5, <1>6, <1>7 DEF Step

\* The call that takes a step is in order after it.
LEMMA StepCall ==
  ASSUME TypeInv, NEW c \in Call, CallOK(c), List(c) \/ Step(c)
  PROVE  CallOK(c)'
<1> USE DEF Goto, At
<1>t. /\ pc \in [Call -> PC] /\ art \in [Call -> Article \cup {0}] /\ ana \in [Call -> Analyses \cup {<<>>}]
      /\ todo \in [Call -> Symbols] /\ built \in [Call -> Symbols]
      /\ row \in [Article -> {"absent", "pending", "analysed"}]
      /\ pc[c] \notin {"next", "ended"} => art[c] \in Article
  BY DEF TypeInv, TypeOK, HasArticle, Symbols
<1>g. Grows
  BY StepShape
<1>1. CASE Create(c) \/ List(c) \/ NextArticle(c) \/ AnalyzeOK(c)
  <2>1. /\ built[c] = <<>> /\ built'[c] = <<>> /\ ~Storing(c)'
        /\ pc'[c] = "update" => todo'[c] = ana'[c]
    BY <1>1, <1>t DEF Create, List, NextArticle, AnalyzeOK, AfterAnalyze, CallOK, Storing
  <2>2. pc'[c] # "tags"
    BY <2>1 DEF Storing
  <2> QED BY <2>1, <2>2, NoSymbols DEF CallOK
<1>2. CASE Leave(c)
  BY <1>2, LeaveOK
<1>3. CASE Update(c) /\ ~Leave(c)
  <2>1. /\ pc[c] = "update" /\ pc'[c] = "upsert" /\ art[c] \in Article
        /\ row' = [row EXCEPT ![art[c]] = "analysed"]
        /\ UNCHANGED <<art, ana, todo, built, faulted, stocks>>
    BY <1>3, <1>t DEF Update, UpdateArticle
  <2>2. Analysed(art[c])'
    BY <2>1, <1>t DEF Analysed
  <2>3. built[c] = <<>> /\ todo[c] = ana[c]
    BY <2>1 DEF CallOK, Storing
  <2> QED BY <2>1, <2>2, <2>3, NoSymbols DEF CallOK, Storing
<1>4. CASE UpsertStock(c)
  <2> DEFINE s == Head(todo[c])
             r == Tail(todo[c])
  <2>1. /\ pc[c] = "upsert" /\ todo[c] # <<>> /\ todo'[c] = r /\ UNCHANGED <<row, pc, art, ana>>
        /\ \/ /\ s \in Blacklisted /\ UNCHANGED <<stocks, built, faulted>>
           \/ /\ stocks' = stocks \cup {s} /\ built'[c] = Append(built[c], s) /\ UNCHANGED faulted
           \/ /\ art[c] \in faulted' /\ UNCHANGED <<stocks, built>>
    BY <1>4, <1>t DEF UpsertStock, MoreCompanies, Skipped, UpsertStockRow, Fault
  <2>2. /\ s \in Symbol /\ r \in Symbols /\ Range(todo[c]) = Range(r) \cup {s}
        /\ NoRepeat(todo[c]) => NoRepeat(r) /\ s \notin Range(r)
    BY <2>1, <1>t, TakeSymbol
  <2>3. /\ Range(Append(built[c], s)) = Range(built[c]) \cup {s}
        /\ NoRepeat(built[c]) /\ s \notin Range(built[c]) => NoRepeat(Append(built[c], s))
    BY <2>2, <1>t, AddSymbol
  <2> HIDE DEF s, r
  <2>4. Analysed(art[c])' /\ faulted \subseteq faulted'
    BY <2>1, <1>g DEF CallOK, Storing, Analysed, Grows
  <2>5. Storing(c)' /\ Storing(c) /\ pc'[c] = "upsert"
    BY <2>1 DEF Storing
  <2>6. Range(built'[c]) \subseteq stocks'
    BY <2>1, <2>3 DEF CallOK
  <2>7. art[c] \notin faulted' =>
          Range(ana[c]) \ Blacklisted \subseteq Range(built'[c]) \cup Range(r)
    BY <2>1, <2>2, <2>3, <2>4, <2>5 DEF CallOK
  <2>8. NoRepeat(ana[c]) => /\ NoRepeat(built'[c]) /\ NoRepeat(r)
                            /\ Range(built'[c]) \cap Range(r) = {}
    BY <2>1, <2>2, <2>3, <2>5 DEF CallOK
  <2> QED BY <2>1, <2>4, <2>5, <2>6, <2>7, <2>8 DEF CallOK
<1>5. CASE UpsertExecutives(c)
  <2>1. /\ pc[c] = "upsert" /\ pc'[c] = "tags" /\ todo[c] = <<>>
        /\ UNCHANGED <<row, stocks, art, ana, todo, built, faulted>>
    BY <1>5, <1>t DEF UpsertExecutives, MoreCompanies
  <2> QED BY <2>1 DEF CallOK, Storing, Analysed
<1>6. AnalyzeFails(c) \/ CreateTags(c) => Leave(c)
  BY DEF AnalyzeFails, CreateTags
<1> QED BY <1>1, <1>2, <1>3, <1>4, <1>5, <1>6 DEF Step
\* Which step adds what to the tables.
LEMMA StepTags ==
  ASSUME TypeInv, TableInv, NEW c \in Call, List(c) \/ Step(c)
  PROVE  /\ \A t \in tags' \ tags : Storing(c) /\ t[1] = art[c] /\ t[2] \in Range(built[c])
         /\ \A s \in stocks' \ stocks : s \notin Blacklisted
         /\ execs' \subseteq execs \cup stocks
<1> USE DEF db
<1>1. CASE CreateTags(c)
  BY <1>1 DEF CreateTags, InsertTags, At, Storing
<1>2. CASE UpsertStock(c)
  BY <1>2 DEF UpsertStock, UpsertStockRow, Skipped
<1>3. CASE UpsertExecutives(c)
  BY <1>3 DEF UpsertExecutives, UpsertExecutiveRow
<1>4. CASE List(c) \/ Create(c) \/ NextArticle(c) \/ AnalyzeOK(c) \/ AnalyzeFails(c) \/ Update(c)
  BY <1>4 DEF List, Create, NextArticle, AnalyzeOK, AnalyzeFails, Update
<1> QED BY <1>1, <1>2, <1>3, <1>4 DEF Step

\* Which step changes the analysis an article shows, and which loses sight of an article
\* whose analysis the call is storing.
LEMMA StepShown ==
  ASSUME TypeInv, TableInv, NEW c \in Call, List(c) \/ Step(c), NEW a \in Article
  PROVE  /\ \/ shown'[a] = shown[a] /\ (Analysed(a)' => Analysed(a))
            \/ StoredBy(c, a)'
         /\ StoredBy(c, a) /\ shown'[a] = shown[a] /\ NoRepeat(shown[a]) /\ a \notin faulted' =>
              TagsOf(a)' \/ StoredBy(c, a)'
<1> USE DEF Goto, At, db, local
<1>t. /\ pc \in [Call -> PC] /\ art \in [Call -> Article \cup {0}] /\ ana \in [Call -> Analyses \cup {<<>>}]
      /\ row \in [Article -> {"absent", "pending", "analysed"}]
      /\ shown \in [Article -> Analyses \cup {<<>>}]
      /\ pc[c] \notin {"next", "ended"} => art[c] \in Article
  BY DEF TypeInv, TypeOK, HasArticle
<1>1. CASE CreateTags(c)
  <2>1. UNCHANGED <<row, shown>> /\ pc[c] = "tags"
    BY <1>1 DEF CreateTags
  <2>2. ASSUME StoredBy(c, a), NoRepeat(shown[a]), a \notin faulted'
        PROVE  TagsOf(a)'
    <3>1. /\ art[c] = a /\ ana[c] = shown[a] /\ todo[c] = <<>> /\ a \notin faulted
          /\ NoRepeat(built[c]) /\ Range(shown[a]) \ Blacklisted \subseteq Range(built[c]) \cup Range(todo[c])
      BY <1>1, <2>1, <2>2, StepShape DEF StoredBy, TableInv, CallOK, Storing, Grows
    <3>2. Range(shown[a]) \ Blacklisted \subseteq Range(built[c])
      BY <3>1, NoSymbols
    <3>3. CASE built[c] = <<>>
      BY <2>1, <3>2, <3>3, NoSymbols DEF TagsOf, Companies
    <3>4. CASE InsertTags(art[c], built[c])
      BY <2>1, <3>1, <3>2, <3>4 DEF TagsOf, Companies, InsertTags
    <3>5. CASE Fault(c)
      BY <2>2, <3>1, <3>5 DEF Fault
    <3> QED BY <1>1, <3>1, <3>3, <3>4, <3>5 DEF CreateTags
  <2> QED BY <2>1, <2>2 DEF Analysed
<1>2. CASE UpsertStock(c) \/ UpsertExecutives(c)
  <2>1. UNCHANGED <<row, shown, art, ana>> /\ pc'[c] \in {"upsert", "tags"}
    BY <1>2, <1>t DEF UpsertStock, UpsertExecutives
  <2> QED BY <2>1 DEF StoredBy, Storing, Analysed
<1>3. CASE Update(c)
  <2>1. ~Storing(c)
    BY <1>3 DEF Update, Storing
  <2>2. CASE UNCHANGED <<row, shown>>
    BY <2>1, <2>2 DEF StoredBy, Analysed
  <2>3. CASE UpdateArticle(art[c], ana[c]) /\ Goto(c, "upsert") /\ UNCHANGED <<art, ana>>
    <3>1. CASE a = art[c]
      BY <1>t, <2>3, <3>1 DEF UpdateArticle, StoredBy, Storing
    <3>2. CASE a # art[c]
      BY <1>t, <2>1, <2>3, <3>2 DEF UpdateArticle, StoredBy, Analysed
    <3> QED BY <3>1, <3>2
  <2> QED BY <1>3, <2>2, <2>3 DEF Update
<1>4. CASE List(c) \/ NextArticle(c) \/ AnalyzeOK(c) \/ AnalyzeFails(c)
  <2>1. UNCHANGED <<row, shown>> /\ ~Storing(c)
    BY <1>4 DEF List, NextArticle, AnalyzeOK, AnalyzeFails, Storing
  <2> QED BY <2>1 DEF StoredBy, Analysed
<1>5. CASE Create(c)
  <2>1. UNCHANGED shown /\ ~Storing(c)
    BY <1>5 DEF Create, Storing
  <2>2. Analysed(a)' => Analysed(a)
    BY <1>5, <1>t DEF Create, InsertArticle, Analysed
  <2> QED BY <2>1, <2>2 DEF StoredBy
<1> QED BY <1>1, <1>2, <1>3, <1>4, <1>5 DEF Step

\* A step of a call keeps the tables right.
LEMMA StepTable ==
  ASSUME TypeInv, TableInv, NEW c \in Call, List(c) \/ Step(c)
  PROVE  TableInv'
<1>1. \A d \in Call : CallOK(d)'
  BY StepShape, StepCall, OthersOK DEF TableInv
<1>g. /\ Grows
      /\ \A d \in Call \ {c} : /\ pc'[d] = pc[d] /\ art'[d] = art[d] /\ ana'[d] = ana[d]
                               /\ todo'[d] = todo[d] /\ built'[d] = built[d]
  BY StepShape
<1>t. /\ tags \subseteq Article \X Symbol /\ (Storing(c) => art[c] \in Article)
      /\ CallOK(c)
  BY DEF TypeInv, TypeOK, HasArticle, Storing, TableInv
<1>2. TagsOnlyOnAnalysed'
  <2> SUFFICES ASSUME NEW t \in tags' PROVE Analysed(t[1])'
    BY DEF TagsOnlyOnAnalysed
  <2>1. CASE t \in tags
    BY <1>g, <1>t, <2>1 DEF TableInv, TagsOnlyOnAnalysed, Grows
  <2>2. CASE t \notin tags
    <3>1. Storing(c) /\ t[1] = art[c]
      BY <2>2, StepTags
    <3>2. Analysed(t[1]) /\ t[1] \in Article
      BY <1>t, <3>1 DEF CallOK
    <3> QED BY <1>g, <3>2 DEF Grows
  <2> QED BY <2>1, <2>2
<1>3. BlacklistKept'
  <2>1. stocks \cap Blacklisted = {} /\ execs \subseteq stocks /\ \A t \in tags : t[2] \in stocks
    BY DEF TableInv, BlacklistKept
  <2>2. stocks' \cap Blacklisted = {} /\ execs' \subseteq stocks'
    BY <1>g, <2>1, StepTags DEF Grows
  <2>3. ASSUME NEW t \in tags' PROVE t[2] \in stocks'
    <3>1. CASE t \in tags
      BY <1>g, <2>1, <3>1 DEF Grows
    <3>2. CASE t \notin tags
      BY <1>g, <1>t, <3>2, StepTags DEF CallOK, Grows
    <3> QED BY <3>1, <3>2
  <2> QED BY <2>2, <2>3 DEF BlacklistKept
<1>4. Complete'
  <2> SUFFICES ASSUME NEW a \in Article, Analysed(a)', a \notin faulted', NoRepeat(shown'[a])
               PROVE  TagsOf(a)' \/ \E d \in Call : StoredBy(d, a)'
    BY DEF Complete
  <2>1. CASE StoredBy(c, a)'
    BY <2>1
  <2>2. CASE shown'[a] = shown[a] /\ (Analysed(a)' => Analysed(a))
    <3>1. Analysed(a) /\ a \notin faulted /\ NoRepeat(shown[a])
      BY <1>g, <2>2 DEF Grows
    <3>2. CASE TagsOf(a)
      BY <1>g, <2>2, <3>2 DEF TagsOf, Companies, Grows
    <3>3. ASSUME NEW d \in Call, StoredBy(d, a) PROVE TagsOf(a)' \/ \E e \in Call : StoredBy(e, a)'
      <4>1. CASE d = c
        BY <2>2, <3>1, <3>3, <4>1, StepShown
      <4>2. CASE d # c
        <5>1. StoredBy(d, a)'
          BY <1>g, <2>2, <3>3, <4>2 DEF StoredBy, Storing
        <5> QED BY <5>1
      <4> QED BY <4>1, <4>2
    <3> QED BY <3>1, <3>2, <3>3 DEF TableInv, Complete
  <2> QED BY <2>1, <2>2, StepShown
<1> QED BY <1>1, <1>2, <1>3, <1>4 DEF TableInv

\* A crash ends every call, and marks the articles they were working on.
LEMMA CrashTable ==
  ASSUME TypeInv, TableInv, Crash
  PROVE  TableInv'
<1>1. /\ UNCHANGED <<row, shown, tags, stocks, execs>>
      /\ \A c \in Call : pc'[c] = "ended" /\ built'[c] = <<>>
      /\ faulted' = faulted \cup {art[c] : c \in {d \in Call : ~At(d, "ended") /\ art[d] # 0}}
  BY DEF Crash, db
<1>2. TagsOnlyOnAnalysed' /\ BlacklistKept'
  BY <1>1 DEF TableInv, TagsOnlyOnAnalysed, BlacklistKept, Analysed
<1>3. \A c \in Call : CallOK(c)'
  BY <1>1, NoSymbols DEF CallOK, Storing
<1>4. Complete'
  <2> SUFFICES ASSUME NEW a \in Article, Analysed(a), a \notin faulted', NoRepeat(shown[a])
               PROVE  TagsOf(a)
    BY <1>1 DEF Complete, TagsOf, Companies, Analysed
  <2>1. ASSUME NEW c \in Call, StoredBy(c, a) PROVE FALSE
    <3>1. ~At(c, "ended") /\ art[c] = a
      BY <2>1 DEF StoredBy, Storing, At
    <3>2. a # 0
      BY DEF Article
    <3> QED BY <1>1, <3>1, <3>2
  <2> QED BY <1>1, <2>1 DEF TableInv, Complete
<1> QED BY <1>2, <1>3, <1>4 DEF TableInv

\* Every step keeps the tables right.
LEMMA NextTable == TypeInv /\ TableInv /\ [Next]_vars => TableInv'
<1> SUFFICES ASSUME TypeInv, TableInv, [Next]_vars PROVE TableInv'
  OBVIOUS
<1>1. CASE UNCHANGED vars
  BY <1>1 DEF vars, db, local, TableInv, TagsOnlyOnAnalysed, BlacklistKept, Complete, CallOK,
     Storing, StoredBy, TagsOf, Companies, Analysed
<1> QED BY <1>1, StepTable, CrashTable DEF Next

\* Empty tables are right.
LEMMA InitTable == Init => TableInv
<1> SUFFICES ASSUME Init PROVE TableInv
  OBVIOUS
<1>1. \A c \in Call : CallOK(c)
  BY NoSymbols DEF Init, CallOK, Storing
<1> QED BY <1>1 DEF Init, TableInv, TagsOnlyOnAnalysed, BlacklistKept, Complete, Analysed

\* All of it in every reachable state.
LEMMA TablesRight == Spec => [](TypeInv /\ TableInv)
BY InitType, NextType, InitTable, NextTable, PTL DEF Spec

\* A tagged article has a score, whichever calls overlap and wherever the server stops.
THEOREM TaggedIsAnalysed == Spec => []TagsOnlyOnAnalysed
<1>1. TableInv => TagsOnlyOnAnalysed
  BY DEF TableInv
<1> QED BY <1>1, TablesRight, PTL

\* An index or a non-issuer the LLM names reaches none of the tables.
THEOREM BlacklistedNowhere == Spec => []BlacklistKept
<1>1. TableInv => BlacklistKept
  BY DEF TableInv
<1> QED BY <1>1, TablesRight, PTL

\* An analysed article that nobody works on and no failure has touched carries a tag for
\* every company of the analysis it shows, even if several calls have analysed it at once.
THEOREM TagsAlwaysComplete == Spec => []TagsComplete
<1>1. TableInv => TagsComplete
  BY DEF TableInv, Complete, TagsComplete, TagsOf, StoredBy, Storing, WorkedOn
<1> QED BY <1>1, TablesRight, PTL

-----------------------------------------------------------------------------
(* The order in which a call tries the models.                              *)

\* The active model comes first, every other one once after it.
LEMMA OrderOfModels ==
  ASSUME NEW a \in Model
  PROVE  LET s == ModelsToTry(a)
         IN  /\ s \in [1 .. Len(Models) -> Model] /\ s[1] = a
             /\ \A i, j \in 1 .. Len(Models) : s[i] = s[j] => i = j
             /\ \A m \in Model : \E i \in 1 .. Len(Models) : s[i] = m
<1> DEFINE k == Place(a)
           L == Len(Models)
           s == ModelsToTry(a)
<1>1. /\ Models \in Seq(STRING) /\ L \in Nat \ {0} /\ DOMAIN Models = 1 .. L
      /\ \A i, j \in 1 .. L : Models[i] = Models[j] => i = j
  BY GeminiAssumption DEF IsInjective
<1>2. Model = {Models[i] : i \in 1 .. L}
  BY <1>1 DEF Model, Range
<1>3. k \in 1 .. L /\ Models[k] = a
  BY <1>1, <1>2 DEF Place
<1> HIDE DEF k
<1>4. s = [i \in 1 .. L |-> Models[IF i = 1 THEN k ELSE IF i <= k THEN i - 1 ELSE i]]
  BY <1>1, <1>3 DEF ModelsToTry, k
<1> HIDE DEF s
<1>5. s \in [1 .. L -> Model]
  <2>1. \A i \in 1 .. L : s[i] \in Model
    BY <1>1, <1>2, <1>3, <1>4
  <2> QED BY <1>4, <2>1
<1>6. ASSUME NEW i \in 1 .. L, NEW j \in 1 .. L, s[i] = s[j] PROVE i = j
  BY <1>1, <1>3, <1>4, <1>6
<1>7. ASSUME NEW m \in Model PROVE \E i \in 1 .. L : s[i] = m
  <2>1. PICK j \in 1 .. L : m = Models[j]
    BY <1>2
  <2>2. CASE j = k
    BY <1>1, <1>4, <1>3, <2>1, <2>2
  <2>3. CASE j < k
    <3>1. j + 1 \in 1 .. L /\ s[j + 1] = Models[j]
      BY <1>1, <1>3, <1>4, <2>3
    <3> QED BY <2>1, <3>1
  <2>4. CASE j > k
    <3>1. s[j] = Models[j]
      BY <1>1, <1>3, <1>4, <2>4
    <3> QED BY <2>1, <3>1
  <2> QED BY <1>1, <1>3, <2>2, <2>3, <2>4
<1> QED BY <1>1, <1>3, <1>4, <1>5, <1>6, <1>7 DEF s

-----------------------------------------------------------------------------
(* The invariants.                                                          *)

Order(c) == ModelsToTry(first[c])
Busy     == {"key", "answer", "rotate", "wait", "remember"}

\* Attempts the call has made at the model it is trying.
Tries(c) == IF phase[c] = "key" THEN retry[c] ELSE retry[c] + 1

\* All a call owes a model before it is told that all are exhausted.
DoneWith(c, m) == IF m \in missing THEN asked[c][m] >= 1 ELSE asked[c][m] = Retries

\* The models before its turn have had their attempts, those after it none.
Behind(c) == \A i \in 1 .. Len(Models) : i < turn[c] => DoneWith(c, Order(c)[i])
Ahead(c)  == \A i \in 1 .. Len(Models) : i > turn[c] => asked[c][Order(c)[i]] = 0

AskInv(c) ==
  /\ retry[c] < Retries
  /\ phase[c] = "idle" => asked[c] = NotAsked
  /\ result[c] # "none" => phase[c] = "return"
  /\ result[c] = "exhausted" => \A m \in Model : DoneWith(c, m)
  /\ phase[c] \in Busy => nkeys > 0 /\ asked[c][Trying(c)] = Tries(c) /\ Behind(c) /\ Ahead(c)
  /\ phase[c] = "remember" => Trying(c) \notin missing

GeminiInv == GeminiTypeOK /\ ActiveModelWorks /\ \A c \in Callers : AskInv(c)

-----------------------------------------------------------------------------
(* Every attempt is made, and the active model is one that answers.         *)

LEMMA OrderFacts ==
  ASSUME GeminiTypeOK, NEW c \in Callers
  PROVE  /\ Len(Models) \in Nat \ {0} /\ Trying(c) = Order(c)[turn[c]] /\ Trying(c) \in Model
         /\ Order(c) \in [1 .. Len(Models) -> Model]
         /\ \A i, j \in 1 .. Len(Models) : Order(c)[i] = Order(c)[j] => i = j
         /\ \A m \in Model : \E i \in 1 .. Len(Models) : Order(c)[i] = m
<1>1. first[c] \in Model /\ turn[c] \in 1 .. Len(Models)
  BY DEF GeminiTypeOK
<1>2. Len(Models) \in Nat \ {0}
  BY GeminiAssumption
<1> DEFINE s == ModelsToTry(first[c])
<1>3. /\ s \in [1 .. Len(Models) -> Model]
      /\ \A i, j \in 1 .. Len(Models) : s[i] = s[j] => i = j
      /\ \A m \in Model : \E i \in 1 .. Len(Models) : s[i] = m
  BY <1>1, OrderOfModels
<1> HIDE DEF s
<1>4. Order(c) = s /\ Trying(c) = s[turn[c]]
  BY DEF s, Order, Trying
<1> QED BY <1>1, <1>2, <1>3, <1>4

LEMMA GeminiInitInv == GeminiInit => GeminiInv
<1> SUFFICES ASSUME GeminiInit PROVE GeminiInv
  OBVIOUS
<1>1. Models[1] \in Model /\ 1 \in 1 .. Len(Models)
  BY GeminiAssumption DEF Model, Range
<1>2. nkeys \in Nat
  BY GeminiAssumption DEF GeminiInit
<1>3. GeminiTypeOK
  BY <1>1, <1>2 DEF GeminiInit, GeminiTypeOK, Keys, NotAsked, Retries
<1>4. ASSUME NEW c \in Callers PROVE AskInv(c)
  BY <1>2 DEF GeminiInit, AskInv, Retries, Busy
<1> QED BY <1>3, <1>4 DEF GeminiInv, ActiveModelWorks, GeminiInit

\* A step that leaves what a call looks at leaves the call as it was.
Same(c) ==
  /\ UNCHANGED <<nkeys, limited, missing>>
  /\ phase'[c] = phase[c] /\ first'[c] = first[c] /\ turn'[c] = turn[c] /\ retry'[c] = retry[c]
  /\ key'[c] = key[c] /\ asked'[c] = asked[c] /\ result'[c] = result[c]

LEMMA AskKept ==
  ASSUME NEW c \in Callers, AskInv(c), Same(c)
  PROVE  AskInv(c)'
BY DEF AskInv, Same, DoneWith, Behind, Ahead, Order, Trying, Tries

\* The call goes on to the next model, or is told that all are exhausted.
LEMMA NextModelInv ==
  ASSUME GeminiInv, NEW c \in Callers, NEW k \in Busy, NextModel(c, k), DoneWith(c, Trying(c)),
         UNCHANGED <<nkeys, limited, missing, first, asked>>
  PROVE  /\ phase' \in [Callers -> Busy \cup {"idle", "return"}]
         /\ turn' \in [Callers -> 1 .. Len(Models)] /\ retry' \in [Callers -> 0 .. Retries]
         /\ result' \in [Callers -> {"none", "ok", "error", "exhausted"}]
         /\ AskInv(c)'
         /\ \A d \in Callers \ {c} : /\ phase'[d] = phase[d] /\ turn'[d] = turn[d]
                                     /\ retry'[d] = retry[d] /\ result'[d] = result[d]
<1> DEFINE s == Order(c)
           n == Len(Models)
<1>1. /\ phase \in [Callers -> Busy \cup {"idle", "return"}] /\ phase[c] = k /\ k \notin {"idle", "return"}
      /\ turn \in [Callers -> 1 .. Len(Models)] /\ retry \in [Callers -> 0 .. Retries]
      /\ result \in [Callers -> {"none", "ok", "error", "exhausted"}]
      /\ asked[c] \in [Model -> 0 .. Retries] /\ AskInv(c) /\ GeminiTypeOK
  BY DEF GeminiInv, GeminiTypeOK, Busy, NextModel, Move, Return
<1>2. /\ n \in Nat \ {0} /\ s \in [1 .. n -> Model] /\ Trying(c) = s[turn[c]]
      /\ \A i, j \in 1 .. n : s[i] = s[j] => i = j
      /\ \A m \in Model : \E i \in 1 .. n : s[i] = m
  BY <1>1, OrderFacts
<1>3. nkeys > 0 /\ Behind(c) /\ Ahead(c) /\ result[c] = "none" /\ retry[c] < Retries
  BY <1>1 DEF AskInv
<1>4. s' = s /\ \A m \in Model : DoneWith(c, m)' <=> DoneWith(c, m)
  BY DEF Order, DoneWith
<1> HIDE DEF s, n
<1>5. CASE turn[c] < n
  <2>1. /\ phase' = [phase EXCEPT ![c] = "key"] /\ turn' = [turn EXCEPT ![c] = turn[c] + 1]
        /\ retry' = [retry EXCEPT ![c] = 0] /\ result' = result
    BY <1>1, <1>2, <1>5 DEF NextModel, Move, n
  <2>2. /\ turn[c] \in 1 .. n /\ turn[c] + 1 \in 1 .. n /\ turn'[c] = turn[c] + 1 /\ retry'[c] = 0
        /\ phase'[c] = "key" /\ result'[c] = "none"
    BY <1>1, <1>2, <1>3, <1>5, <2>1 DEF n
  <2>3. Trying(c)' = s[turn[c] + 1]
    BY <2>2 DEF Trying, s, Order
  <2>4. asked[c][s[turn[c] + 1]] = 0
    BY <1>3, <2>2 DEF Ahead, s, n
  <2>5. Behind(c)'
    <3> SUFFICES ASSUME NEW i \in 1 .. n, i < turn[c] + 1 PROVE DoneWith(c, s[i])'
      BY <1>4, <2>2 DEF Behind, n, s
    <3>1. s[i] \in Model
      BY <1>2
    <3>2. i = turn[c] \/ i < turn[c]
      BY <2>2
    <3> QED BY <1>2, <1>3, <1>4, <3>1, <3>2 DEF Behind, s, n
  <2>6. Ahead(c)'
    <3> SUFFICES ASSUME NEW i \in 1 .. n, i > turn[c] + 1 PROVE asked[c][s[i]] = 0
      BY <1>4, <2>2 DEF Ahead, n, s
    <3> QED BY <1>3, <2>2 DEF Ahead, n, s
  <2>7. AskInv(c)'
    BY <1>3, <2>2, <2>3, <2>4, <2>5, <2>6 DEF AskInv, Tries, Retries
  <2> QED BY <1>1, <2>1, <2>2, <2>7 DEF Busy, n, Retries
<1>6. CASE turn[c] >= n
  <2>1. /\ turn[c] = n /\ phase' = [phase EXCEPT ![c] = "return"] /\ turn' = turn /\ retry' = retry
        /\ result' = [result EXCEPT ![c] = "exhausted"]
    BY <1>1, <1>2, <1>6 DEF NextModel, Move, Return, n
  <2>2. ASSUME NEW m \in Model PROVE DoneWith(c, m)'
    <3>1. PICK i \in 1 .. n : s[i] = m
      BY <1>2
    <3>2. i < turn[c] \/ i = turn[c]
      BY <1>2, <2>1
    <3> QED BY <1>2, <1>3, <1>4, <3>1, <3>2 DEF Behind, s, n
  <2>3. phase'[c] = "return" /\ retry'[c] < Retries
    BY <1>1, <1>3, <2>1
  <2>4. AskInv(c)'
    BY <2>2, <2>3 DEF AskInv, Busy
  <2> QED BY <1>1, <2>1, <2>4 DEF Busy
<1> QED BY <1>1, <1>2, <1>5, <1>6 DEF n

\* Another attempt at the same model, or the end of its three.
LEMMA RetryInv ==
  ASSUME GeminiInv, NEW c \in Callers, NEW k \in Busy \ {"key"}, Retry(c, k),
         UNCHANGED <<nkeys, limited, missing, first, asked>>
  PROVE  /\ phase' \in [Callers -> Busy \cup {"idle", "return"}]
         /\ turn' \in [Callers -> 1 .. Len(Models)] /\ retry' \in [Callers -> 0 .. Retries]
         /\ result' \in [Callers -> {"none", "ok", "error", "exhausted"}]
         /\ AskInv(c)'
         /\ \A d \in Callers \ {c} : /\ phase'[d] = phase[d] /\ turn'[d] = turn[d]
                                     /\ retry'[d] = retry[d] /\ result'[d] = result[d]
<1>1. /\ phase \in [Callers -> Busy \cup {"idle", "return"}] /\ phase[c] = k
      /\ turn \in [Callers -> 1 .. Len(Models)] /\ retry \in [Callers -> 0 .. Retries]
      /\ result \in [Callers -> {"none", "ok", "error", "exhausted"}]
      /\ asked[c] \in [Model -> 0 .. Retries] /\ AskInv(c) /\ GeminiTypeOK
  BY DEF GeminiInv, GeminiTypeOK, Busy, Retry, NextModel, Move, Return
<1>2. nkeys > 0 /\ asked[c][Trying(c)] = retry[c] + 1 /\ Behind(c) /\ Ahead(c) /\ result[c] = "none"
  BY <1>1 DEF AskInv, Tries, Busy
<1>3. CASE Count(c) < Retries
  <2>1. /\ phase' = [phase EXCEPT ![c] = "key"] /\ retry' = [retry EXCEPT ![c] = retry[c] + 1]
        /\ turn' = turn /\ result' = result
    BY <1>1, <1>3 DEF Retry, Move, Count, Retries
  <2>2. /\ phase'[c] = "key" /\ retry'[c] = retry[c] + 1 /\ retry'[c] \in 0 .. Retries /\ retry'[c] < Retries
        /\ result'[c] = "none"
    <3>1. retry[c] \in 0 .. Retries /\ retry[c] + 1 < Retries
      BY <1>1, <1>3 DEF Count
    <3>2. retry[c] + 1 \in 0 .. Retries
      BY <3>1 DEF Retries
    <3> QED BY <1>1, <1>2, <2>1, <3>1, <3>2
  <2>3. Trying(c)' = Trying(c) /\ Behind(c)' /\ Ahead(c)'
    BY <1>2, <2>1 DEF Trying, Behind, Ahead, Order, DoneWith
  <2>4. AskInv(c)'
    BY <1>2, <2>2, <2>3 DEF AskInv, Tries
  <2> QED BY <1>1, <2>1, <2>2, <2>4 DEF Busy
<1>4. CASE ~(Count(c) < Retries)
  <2>1. Count(c) = Retries /\ NextModel(c, k)
    BY <1>4 DEF Retry
  <2>2. DoneWith(c, Trying(c))
    BY <1>2, <2>1 DEF DoneWith, Count, Retries
  <2> QED BY <2>1, <2>2, NextModelInv
<1> QED BY <1>3, <1>4

\* A call's step within its own fields, by action.
LEMMA ReadKeyInv ==
  ASSUME GeminiInv, NEW c \in Callers, ReadKey(c), UNCHANGED alone
  PROVE  GeminiTypeOK' /\ AskInv(c)'
<1> DEFINE t == Trying(c)
<1>1. /\ GeminiTypeOK /\ AskInv(c) /\ phase[c] = "key"
      /\ phase' = [phase EXCEPT ![c] = "answer"] /\ key' = [key EXCEPT ![c] = activeKey]
      /\ asked' = [asked EXCEPT ![c][t] = IF @ <= Retries THEN @ + 1 ELSE @]
      /\ UNCHANGED <<env, shared, first, turn, retry, result, ctxDone>>
  <2>1. GeminiTypeOK /\ AskInv(c)
    BY DEF GeminiInv
  <2>2. ReadKey(c)
    OBVIOUS
  <2> QED BY <2>1, <2>2 DEF ReadKey, Move, ActiveAPIKey
<1>2. /\ nkeys > 0 /\ asked[c][t] = retry[c] /\ Behind(c) /\ Ahead(c) /\ retry[c] \in 0 .. Retries
      /\ retry[c] < Retries /\ nkeys \in Nat /\ result[c] = "none"
      /\ t \in Model /\ asked \in [Callers -> [Model -> 0 .. Retries]] /\ turn[c] \in 1 .. Len(Models)
  BY <1>1, OrderFacts, GeminiAssumption DEF AskInv, Tries, Busy, GeminiTypeOK
<1>3. /\ \A i \in 1 .. Len(Models) : i # turn[c] => Order(c)[i] # t
      /\ Trying(c)' = t /\ Order(c)' = Order(c) /\ Len(Models) \in Nat
      /\ \A i \in 1 .. Len(Models) : Order(c)[i] \in Model
  <2>1. /\ Len(Models) \in Nat /\ t = Order(c)[turn[c]]
        /\ Order(c) \in [1 .. Len(Models) -> Model]
        /\ \A i, j \in 1 .. Len(Models) : Order(c)[i] = Order(c)[j] => i = j
    BY <1>1, OrderFacts
  <2>2. Trying(c)' = t /\ Order(c)' = Order(c)
    BY <1>1 DEF Trying, Order
  <2> HIDE DEF t
  <2> QED BY <1>2, <2>1, <2>2
<1> HIDE DEF t
<1>4. /\ asked'[c][t] = retry[c] + 1 /\ \A m \in Model : m # t => asked'[c][m] = asked[c][m]
      /\ asked' \in [Callers -> [Model -> 0 .. Retries]]
  <2>1. asked' = [asked EXCEPT ![c] = [asked[c] EXCEPT ![t] = retry[c] + 1]]
    <3>1. (IF asked[c][t] <= Retries THEN asked[c][t] + 1 ELSE asked[c][t]) = retry[c] + 1
      BY <1>2 DEF Retries
    <3> QED BY <1>1, <1>2, <3>1
  <2>2. retry[c] + 1 \in 0 .. Retries
    BY <1>2 DEF Retries
  <2> QED BY <1>2, <2>1, <2>2
<1>5. Behind(c)' /\ Ahead(c)'
  <2>1. \A i \in 1 .. Len(Models) : i # turn[c] => asked'[c][Order(c)'[i]] = asked[c][Order(c)[i]]
    BY <1>3, <1>4
  <2>2. turn' = turn /\ missing' = missing /\ turn[c] \in Nat
    BY <1>1, <1>2 DEF env
  <2>3. ASSUME NEW i \in 1 .. Len(Models) PROVE (i < turn[c] \/ i > turn[c]) => i # turn[c]
    BY <2>2
  <2> QED BY <1>2, <1>3, <2>1, <2>2, <2>3 DEF Behind, Ahead, DoneWith
<1>6. AskInv(c)'
  BY <1>1, <1>2, <1>3, <1>4, <1>5 DEF AskInv, Tries, env, GeminiTypeOK
<1>7. activeKey \in -1 .. nkeys - 1
  BY <1>1, <1>2 DEF GeminiTypeOK, Keys
<1>8. GeminiTypeOK'
  BY <1>1, <1>4, <1>7 DEF GeminiTypeOK, env, shared, Keys
<1> QED BY <1>6, <1>8

LEMMA StartInv ==
  ASSUME GeminiInv, NEW c \in Callers, Start(c)
  PROVE  GeminiTypeOK' /\ AskInv(c)'
<1>1. /\ GeminiTypeOK /\ AskInv(c) /\ phase[c] = "idle" /\ 1 \in 1 .. Len(Models) /\ Len(Models) \in Nat
      /\ first' = [first EXCEPT ![c] = activeModel] /\ turn' = [turn EXCEPT ![c] = 1]
      /\ retry' = [retry EXCEPT ![c] = 0] /\ UNCHANGED <<env, shared, key, asked, ctxDone>>
      /\ alone' \in SUBSET Callers
  BY GeminiAssumption DEF GeminiInv, Start, Move, Return
<1>2. asked[c] = [m \in Model |-> 0] /\ result[c] = "none"
  BY <1>1 DEF AskInv, NotAsked, GeminiTypeOK
<1>3. GeminiTypeOK' /\ first'[c] \in Model /\ turn'[c] = 1 /\ retry'[c] = 0
  <2>1. /\ phase' \in [Callers -> Busy \cup {"idle", "return"}]
        /\ result' \in [Callers -> {"none", "ok", "error", "exhausted"}]
    <3>1. /\ phase \in [Callers -> Busy \cup {"idle", "return"}]
          /\ result \in [Callers -> {"none", "ok", "error", "exhausted"}]
      BY <1>1 DEF GeminiTypeOK, Busy
    <3>2. \/ phase' = [phase EXCEPT ![c] = "key"] /\ result' = result
          \/ phase' = [phase EXCEPT ![c] = "return"] /\ result' = [result EXCEPT ![c] = "error"]
      BY DEF Start, Move, Return
    <3> QED BY <3>1, <3>2 DEF Busy
  <2>2. /\ first' \in [Callers -> Model] /\ turn' \in [Callers -> 1 .. Len(Models)]
        /\ retry' \in [Callers -> 0 .. Retries]
    BY <1>1 DEF GeminiTypeOK, Retries
  <2>3. first'[c] \in Model /\ turn'[c] = 1 /\ retry'[c] = 0
    BY <1>1 DEF GeminiTypeOK
  <2> QED BY <1>1, <2>1, <2>2, <2>3 DEF GeminiTypeOK, env, shared, Keys, Busy
<1>4. CASE nkeys > 0 /\ Move(c, "idle", "key") /\ UNCHANGED result
  <2>1. phase'[c] = "key"
    BY <1>1, <1>4 DEF Move, GeminiTypeOK
  <2>2. /\ Trying(c)' \in Model /\ \A i \in 1 .. Len(Models) : Order(c)'[i] \in Model
    <3> DEFINE s == ModelsToTry(first'[c])
    <3>1. s \in [1 .. Len(Models) -> Model]
      BY <1>3, OrderOfModels
    <3> HIDE DEF s
    <3>2. Order(c)' = s /\ Trying(c)' = s[1]
      BY <1>3 DEF s, Order, Trying
    <3> QED BY <1>1, <3>1, <3>2
  <2>3. asked'[c][Trying(c)'] = 0 /\ \A i \in 1 .. Len(Models) : asked'[c][Order(c)'[i]] = 0
    BY <1>1, <1>2, <2>2
  <2>4. Behind(c)' /\ Ahead(c)'
    BY <1>1, <1>3, <2>3 DEF Behind, Ahead
  <2> QED BY <1>1, <1>2, <1>3, <1>4, <2>1, <2>3, <2>4 DEF AskInv, Tries, env, Retries
<1>5. CASE nkeys = 0 /\ Return(c, "idle", "error")
  <2>1. phase'[c] = "return" /\ result'[c] = "error"
    BY <1>1, <1>5 DEF Return, Move, GeminiTypeOK
  <2> QED BY <1>1, <1>3, <2>1 DEF AskInv, Retries, Busy
<1> QED BY <1>4, <1>5 DEF Start

\* What an answer, a rotation or a wait leaves.
LEMMA AnswerInv ==
  ASSUME GeminiInv, NEW c \in Callers, Answer(c), UNCHANGED alone
  PROVE  GeminiTypeOK' /\ AskInv(c)'
<1>1. /\ GeminiTypeOK /\ AskInv(c) /\ phase[c] = "answer"
      /\ UNCHANGED <<nkeys, limited, missing, activeKey, activeModel, first, key, asked, ctxDone>>
  BY DEF GeminiInv, Answer, env, shared, RateLimited, NotFound, NextModel, OtherError, Answered, Move, Return
<1>2. /\ nkeys > 0 /\ asked[c][Trying(c)] = retry[c] + 1 /\ Behind(c) /\ Ahead(c) /\ retry[c] \in 0 .. Retries
      /\ retry[c] < Retries /\ result[c] = "none"
  BY <1>1 DEF AskInv, Tries, Busy, GeminiTypeOK
<1>3. CASE RateLimited(c) \/ Answered(c)
  <2>1. PICK k \in {"rotate", "wait", "remember"} : phase' = [phase EXCEPT ![c] = k] /\ (k = "remember" => Trying(c) \notin missing)
    BY <1>3 DEF RateLimited, Answered, Move, ModelNotFound
  <2>2. UNCHANGED <<turn, retry, result>> /\ phase'[c] = k
    BY <1>1, <1>3, <2>1 DEF RateLimited, Answered, GeminiTypeOK
  <2>3. Trying(c)' = Trying(c) /\ Behind(c)' /\ Ahead(c)'
    BY <1>1, <1>2, <2>2 DEF Trying, Behind, Ahead, Order, DoneWith
  <2>4. AskInv(c)'
    BY <1>1, <1>2, <2>1, <2>2, <2>3 DEF AskInv, Tries
  <2> QED BY <1>1, <2>1, <2>2, <2>4 DEF GeminiTypeOK, Keys
<1>4. CASE NotFound(c)
  <2>1. DoneWith(c, Trying(c))
    BY <1>2, <1>4 DEF NotFound, ModelNotFound, DoneWith
  <2>2. NextModel(c, "answer")
    BY <1>4 DEF NotFound
  <2>3. "answer" \in Busy
    BY DEF Busy
  <2> QED BY <1>1, <2>1, <2>2, <2>3, NextModelInv DEF GeminiTypeOK, Keys, Busy
<1>5. CASE OtherError(c)
  <2>1. /\ phase' = [phase EXCEPT ![c] = "return"] /\ result' = [result EXCEPT ![c] = "error"]
        /\ UNCHANGED <<turn, retry>>
    BY <1>5 DEF OtherError, Return, Move
  <2>2. phase'[c] = "return" /\ result'[c] = "error"
    BY <1>1, <2>1 DEF GeminiTypeOK
  <2>3. AskInv(c)'
    BY <1>2, <2>1, <2>2 DEF AskInv, Busy
  <2> QED BY <1>1, <2>1, <2>3 DEF GeminiTypeOK, Keys
<1> QED BY <1>3, <1>4, <1>5 DEF Answer

LEMMA RotateInv ==
  ASSUME GeminiInv, NEW c \in Callers, RotateAPIKey(c), UNCHANGED alone
  PROVE  GeminiTypeOK' /\ AskInv(c)'
<1>1. /\ GeminiTypeOK /\ AskInv(c) /\ Retry(c, "rotate") /\ "rotate" \in Busy \ {"key"} /\ phase[c] = "rotate"
      /\ UNCHANGED <<nkeys, limited, missing, activeModel, first, key, asked, ctxDone, alone>>
      /\ activeKey' = (activeKey + 1) % nkeys
  BY DEF GeminiInv, RotateAPIKey, env, Busy, NextKey, Retry, NextModel, Move, Return
<1>2. nkeys \in Nat /\ nkeys > 0 /\ activeKey \in Nat
  BY <1>1, GeminiAssumption DEF AskInv, GeminiTypeOK
<1>3. activeKey' \in 0 .. nkeys - 1
  BY <1>1, <1>2
<1> QED BY <1>1, <1>2, <1>3, RetryInv DEF GeminiTypeOK, Keys, Busy

LEMMA WaitInvariant ==
  ASSUME GeminiInv, NEW c \in Callers, Wait(c), UNCHANGED alone
  PROVE  GeminiTypeOK' /\ AskInv(c)'
<1>1. /\ GeminiTypeOK /\ AskInv(c) /\ "wait" \in Busy \ {"key"}
      /\ UNCHANGED <<nkeys, limited, missing, activeKey, activeModel, first, key, asked, ctxDone, alone>>
  BY DEF GeminiInv, Wait, env, shared, Busy
<1>2. CASE Retry(c, "wait")
  BY <1>1, <1>2, RetryInv DEF GeminiTypeOK, Keys, Busy
<1>3. CASE Return(c, "wait", "error") /\ UNCHANGED <<turn, retry>>
  <2>1. /\ phase' = [phase EXCEPT ![c] = "return"] /\ result' = [result EXCEPT ![c] = "error"]
        /\ UNCHANGED <<turn, retry>>
    BY <1>3 DEF Return, Move
  <2>2. phase'[c] = "return" /\ result'[c] = "error"
    BY <1>1, <2>1 DEF GeminiTypeOK
  <2>3. AskInv(c)'
    BY <1>1, <2>1, <2>2 DEF AskInv, Busy
  <2> QED BY <1>1, <2>1, <2>3 DEF GeminiTypeOK, Keys
<1> QED BY <1>2, <1>3 DEF Wait

LEMMA RememberInv ==
  ASSUME GeminiInv, NEW c \in Callers, Remember(c), UNCHANGED alone
  PROVE  GeminiTypeOK' /\ AskInv(c)' /\ activeModel' \notin missing
<1>1. /\ GeminiTypeOK /\ AskInv(c) /\ phase[c] = "remember" /\ activeModel' = Trying(c) /\ Trying(c) \in Model
      /\ UNCHANGED <<nkeys, limited, missing, activeKey, first, turn, retry, key, asked, ctxDone, alone>>
      /\ phase' = [phase EXCEPT ![c] = "return"]
  BY OrderFacts DEF GeminiInv, Remember, Remembered, ParseResult, Return, Move, env
<1>2. PICK r \in {"ok", "error"} : result' = [result EXCEPT ![c] = r]
  BY DEF Remember, ParseResult, Return
<1>3. phase'[c] = "return" /\ result'[c] = r
  BY <1>1, <1>2 DEF GeminiTypeOK
<1>4. AskInv(c)' /\ Trying(c) \notin missing
  BY <1>1, <1>3 DEF AskInv, Busy
<1> QED BY <1>1, <1>2, <1>4 DEF GeminiTypeOK, Keys

LEMMA AgainInv ==
  ASSUME GeminiInv, NEW c \in Callers, Again(c), UNCHANGED alone
  PROVE  GeminiTypeOK' /\ AskInv(c)'
<1>1. /\ GeminiTypeOK /\ AskInv(c) /\ phase' = [phase EXCEPT ![c] = "idle"]
      /\ key' = [key EXCEPT ![c] = -1] /\ asked' = [asked EXCEPT ![c] = NotAsked]
      /\ result' = [result EXCEPT ![c] = "none"] /\ ctxDone' = ctxDone \ {c}
      /\ UNCHANGED <<nkeys, limited, missing, activeKey, activeModel, first, turn, retry, alone>>
  BY DEF GeminiInv, Again, env, shared, Move
<1>2. phase'[c] = "idle" /\ asked'[c] = NotAsked /\ result'[c] = "none" /\ nkeys \in Nat
  BY <1>1, GeminiAssumption DEF GeminiTypeOK
<1>3. AskInv(c)'
  BY <1>1, <1>2 DEF AskInv, Busy, NotAsked
<1>4. NotAsked \in [Model -> 0 .. Retries] /\ -1 \in -1 .. nkeys - 1
  BY <1>2 DEF NotAsked, Retries
<1> QED BY <1>1, <1>3, <1>4 DEF GeminiTypeOK, Keys

\* No step moves another call.
LEMMA OthersSame ==
  ASSUME GeminiTypeOK, NEW c \in Callers, NEW d \in Callers \ {c}, Start(c) \/ CallStep(c)
  PROVE  Same(d)
<1> USE DEF Same, env, shared, GeminiTypeOK, Move, Return
<1>1. CASE Start(c)
  BY <1>1 DEF Start
<1>2. CASE ReadKey(c)
  BY <1>2 DEF ReadKey
<1>3. CASE Answer(c)
  BY <1>3 DEF Answer, RateLimited, NotFound, OtherError, Answered, NextModel
<1>4. CASE RotateAPIKey(c)
  BY <1>4 DEF RotateAPIKey, Retry, NextModel
<1>5. CASE Wait(c)
  BY <1>5 DEF Wait, Retry, NextModel
<1>6. CASE Remember(c)
  BY <1>6 DEF Remember, ParseResult
<1>7. CASE Again(c)
  BY <1>7 DEF Again
<1> QED BY <1>1, <1>2, <1>3, <1>4, <1>5, <1>6, <1>7 DEF CallStep

LEMMA GeminiNextInv == GeminiInv /\ [GeminiNext]_geminiVars => GeminiInv'
<1> SUFFICES ASSUME GeminiInv, [GeminiNext]_geminiVars PROVE GeminiInv'
  OBVIOUS
<1>1. GeminiTypeOK /\ ActiveModelWorks /\ \A c \in Callers : AskInv(c)
  BY DEF GeminiInv
<1>2. CASE UNCHANGED geminiVars
  <2>1. GeminiTypeOK' /\ ActiveModelWorks'
    BY <1>1, <1>2 DEF GeminiTypeOK, Keys, ActiveModelWorks, geminiVars, env, shared, own
  <2>2. ASSUME NEW c \in Callers PROVE AskInv(c)'
    BY <1>1, <1>2, AskKept DEF Same, geminiVars, env, own
  <2> QED BY <2>1, <2>2 DEF GeminiInv
<1>3. ASSUME NEW c \in Callers, Cancel(c) PROVE GeminiInv'
  <2>1. GeminiTypeOK' /\ ActiveModelWorks'
    BY <1>1, <1>3 DEF Cancel, GeminiTypeOK, Keys, ActiveModelWorks, env, shared, own
  <2>2. ASSUME NEW d \in Callers PROVE AskInv(d)'
    BY <1>1, <1>3, AskKept DEF Same, Cancel, env, own
  <2> QED BY <2>1, <2>2 DEF GeminiInv
<1>4. ASSUME NEW c \in Callers, Start(c) \/ (CallStep(c) /\ UNCHANGED alone) PROVE GeminiInv'
  <2>1. GeminiTypeOK' /\ AskInv(c)'
    BY <1>4, StartInv, ReadKeyInv, AnswerInv, RotateInv, WaitInvariant, RememberInv, AgainInv DEF CallStep
  <2>2. ASSUME NEW d \in Callers \ {c} PROVE AskInv(d)'
    BY <1>1, <1>4, OthersSame, AskKept
  <2>3. ActiveModelWorks'
    <3>1. CASE Remember(c) /\ UNCHANGED alone
      BY <3>1, RememberInv DEF ActiveModelWorks, Remember, env
    <3>2. CASE Start(c) \/ ReadKey(c) \/ Answer(c) \/ RotateAPIKey(c) \/ Wait(c) \/ Again(c)
      <4>1. activeModel' = activeModel /\ missing' = missing
        BY <3>2 DEF Start, ReadKey, Answer, RateLimited, NotFound, NextModel, OtherError,
          Answered, RotateAPIKey, Wait, Again, env, shared
      <4> QED BY <1>1, <4>1 DEF ActiveModelWorks
    <3> QED BY <1>4, <3>1, <3>2 DEF CallStep
  <2> QED BY <2>1, <2>2, <2>3 DEF GeminiInv
<1> QED BY <1>2, <1>3, <1>4 DEF GeminiNext

LEMMA GeminiInvHolds == GeminiSpec => []GeminiInv
BY GeminiInitInv, GeminiNextInv, PTL DEF GeminiSpec

\* Type correctness of the analyzer: in particular the index of the active key is
\* always that of a key (gemini.go 60-140).
THEOREM GeminiTypeCorrect == GeminiSpec => []GeminiTypeOK
<1>1. GeminiInv => GeminiTypeOK
  BY DEF GeminiInv
<1> QED BY <1>1, GeminiInvHolds, PTL

\* However many calls overlap, the model that the next call tries first is the
\* primary one or one that exists.
THEOREM ActiveModelAnswers == GeminiSpec => []ActiveModelWorks
<1>1. GeminiInv => ActiveModelWorks
  BY DEF GeminiInv
<1> QED BY <1>1, GeminiInvHolds, PTL

\* For any numbers of models, keys and overlapping calls, "all models exhausted"
\* is told only to a call that has given every model the attempts it is owed.
THEOREM ExhaustionIsEarned == GeminiSpec => []ExhaustedMeansAsked
<1>1. GeminiInv => ExhaustedMeansAsked
  BY DEF GeminiInv, AskInv, DoneWith, ExhaustedMeansAsked
<1> QED BY <1>1, GeminiInvHolds, PTL

-----------------------------------------------------------------------------
(* A call that nobody overlaps finds a key with quota left.                 *)

\* Keys from which at most r rotations led to the active one have no quota left.
Rotated(r) == \A k \in Keys : \A j \in 1 .. r : (k + j) % nkeys = activeKey => k \in limited

PairInv(c) ==
  /\ phase[c] \in Busy => /\ Rotated(retry[c])
                          /\ \A i \in 1 .. Len(Models) :
                               i < turn[c] => Keys \subseteq limited \/ Order(c)[i] \in missing
  /\ phase[c] \in Busy \ {"key"} => key[c] = activeKey
  /\ phase[c] \in {"rotate", "wait"} => activeKey \in limited
  /\ phase[c] = "wait" => nkeys = 1
  /\ result[c] = "exhausted" => Keys \subseteq limited \/ Model \subseteq missing

Undisturbed(c) == \A d \in Callers \ {c} : phase[d] = "idle"

AloneInv == \A c \in alone : Undisturbed(c) /\ (nkeys <= Retries => PairInv(c))

\* Three rotations at most pass every one of at most three keys.
LEMMA OneRotation ==
  ASSUME NEW n \in 1 .. 3, NEW a \in 0 .. n - 1, NEW r \in 0 .. 2, NEW S, a \in S,
         \A k \in 0 .. n - 1 : \A j \in 1 .. r : (k + j) % n = a => k \in S
  PROVE  /\ \A k \in 0 .. n - 1 : \A j \in 1 .. r + 1 : (k + j) % n = (a + 1) % n => k \in S
         /\ r = 2 => 0 .. n - 1 \subseteq S
<1> DEFINE P(k, j) == (k + j) % n = a => k \in S
<1>0. \A k \in 0 .. n - 1 : \A j \in 1 .. r : P(k, j)
  OBVIOUS
<1>1. \A k \in 0 .. n - 1 : \A j \in 1 .. r + 1 : j = 1 \/ (j - 1 \in 1 .. r /\ P(k, j - 1))
  <2> HIDE DEF P
  <2> QED BY <1>0
<1>2. ASSUME NEW k \in 0 .. n - 1, NEW j \in 1 .. r + 1, (k + j) % n = (a + 1) % n PROVE k \in S
  <2>1. j \in 1 .. 3
    OBVIOUS
  <2>2. (k + (j - 1)) % n = a
    <3>1. CASE n = 1
      BY <3>1
    <3>2. CASE n = 2
      BY <1>2, <2>1, <3>2
    <3>3. CASE n = 3
      <4>1. (k = 0 \/ k = 1 \/ k = 2) /\ (a = 0 \/ a = 1 \/ a = 2) /\ (j = 1 \/ j = 2 \/ j = 3)
        BY <2>1, <3>3
      <4> QED BY <1>2, <3>3, <4>1
    <3> QED BY <3>1, <3>2, <3>3
  <2>3. j = 1 => k = a
    BY <2>2
  <2> QED BY <1>1, <2>2, <2>3
<1>3. ASSUME r = 2 PROVE 0 .. n - 1 \subseteq S
  <2> SUFFICES ASSUME NEW k \in 0 .. n - 1, k # a PROVE k \in S
    OBVIOUS
  <2>1. (k + 1) % n = a \/ (k + 2) % n = a
    OBVIOUS
  <2> QED BY <1>0, <1>3, <2>1
<1> QED BY <1>2, <1>3

\* A step to the next model, or to the end, of a call that has found no pair.
LEMMA NextModelPair ==
  ASSUME GeminiInv, NEW c \in Callers, NEW k \in Busy, NextModel(c, k), PairInv(c), phase[c] \in Busy,
         Keys \subseteq limited \/ Trying(c) \in missing,
         UNCHANGED <<nkeys, limited, missing, first, key>>
  PROVE  PairInv(c)'
<1> DEFINE n == Len(Models)
           s == Order(c)
           Bad(m) == Keys \subseteq limited \/ m \in missing
<1>1. /\ GeminiTypeOK /\ AskInv(c) /\ phase[c] \in {"key", "answer", "rotate", "wait", "remember"}
      /\ turn \in [Callers -> 1 .. n] /\ retry \in [Callers -> 0 .. Retries]
      /\ phase \in [Callers -> Busy \cup {"idle", "return"}]
      /\ result \in [Callers -> {"none", "ok", "error", "exhausted"}]
  BY DEF GeminiInv, GeminiTypeOK, Busy
<1>2. /\ n \in Nat \ {0} /\ s \in [1 .. n -> Model] /\ Trying(c) = s[turn[c]]
      /\ \A m \in Model : \E i \in 1 .. n : s[i] = m
  BY <1>1, OrderFacts
<1>3. (\A i \in 1 .. n : i < turn[c] => Bad(s[i])) /\ Bad(s[turn[c]])
  BY <1>2 DEF PairInv
<1>4. s' = s /\ \A m : Bad(m)' <=> Bad(m)
  BY DEF Order, Keys
<1>5. result[c] = "none"
  BY <1>1 DEF AskInv
<1> HIDE DEF n, s, Bad
<1>6. \A i \in 1 .. n : i <= turn[c] => Bad(s[i])
  <2>1. turn[c] \in Nat /\ \A i \in 1 .. n : i <= turn[c] => i < turn[c] \/ i = turn[c]
    BY <1>1, <1>2
  <2> QED BY <1>3, <2>1
<1>7. CASE turn[c] < n
  <2>1. /\ phase' = [phase EXCEPT ![c] = "key"] /\ turn' = [turn EXCEPT ![c] = turn[c] + 1]
        /\ retry' = [retry EXCEPT ![c] = 0] /\ result' = result
    BY <1>1, <1>2, <1>7 DEF NextModel, Move, n
  <2>2. phase'[c] = "key" /\ turn'[c] = turn[c] + 1 /\ retry'[c] = 0 /\ result'[c] = "none"
    BY <1>1, <1>5, <2>1
  <2>3. Rotated(0)'
    BY DEF Rotated
  <2>4. \A i \in 1 .. n : i < turn'[c] => Bad(s[i])
    BY <1>1, <1>2, <1>6, <2>2
  <2> QED BY <1>4, <2>2, <2>3, <2>4 DEF PairInv, Rotated, n, s, Bad
<1>8. CASE turn[c] >= n
  <2>1. /\ phase' = [phase EXCEPT ![c] = "return"] /\ result' = [result EXCEPT ![c] = "exhausted"]
    BY <1>1, <1>2, <1>8 DEF NextModel, Move, Return, n
  <2>2. phase'[c] = "return"
    BY <1>1, <2>1
  <2>3. \A i \in 1 .. n : Bad(s[i])
    BY <1>1, <1>2, <1>6, <1>8
  <2>4. \A m \in Model : Bad(m)
    BY <1>2, <2>3
  <2>5. (Keys \subseteq limited \/ Model \subseteq missing)'
    BY <1>4, <2>4 DEF Bad, Keys
  <2> QED BY <2>2, <2>5 DEF PairInv, Busy
<1> QED BY <1>1, <1>2, <1>7, <1>8

\* A further attempt after a rotation, or after a wait with the only key.
LEMMA RetryPair ==
  ASSUME GeminiInv, NEW c \in Callers, NEW k \in {"rotate", "wait"}, Retry(c, k), PairInv(c), nkeys <= Retries,
         UNCHANGED <<nkeys, limited, missing, first, key>>, activeKey' = (activeKey + 1) % nkeys
  PROVE  PairInv(c)'
<1>1. /\ GeminiTypeOK /\ AskInv(c) /\ phase[c] = k /\ phase[c] \in Busy /\ k \in Busy
      /\ retry[c] \in 0 .. 2 /\ phase \in [Callers -> Busy \cup {"idle", "return"}]
      /\ retry \in [Callers -> 0 .. Retries] /\ activeKey \in Nat /\ (nkeys > 0 => activeKey \in Keys)
  BY DEF GeminiInv, GeminiTypeOK, AskInv, Retry, NextModel, Move, Return, Busy, Retries
<1>2. nkeys \in 1 .. 3 /\ result[c] = "none" /\ nkeys > 0 /\ activeKey \in 0 .. nkeys - 1
  BY <1>1, GeminiAssumption DEF AskInv, GeminiTypeOK, Retries, Keys
<1>3. /\ activeKey \in limited /\ Rotated(retry[c])
      /\ \A i \in 1 .. Len(Models) : i < turn[c] => Keys \subseteq limited \/ Order(c)[i] \in missing
  BY <1>1 DEF PairInv
<1>4. /\ \A i \in 0 .. nkeys - 1 : \A j \in 1 .. retry[c] + 1 : (i + j) % nkeys = (activeKey + 1) % nkeys => i \in limited
      /\ retry[c] = 2 => 0 .. nkeys - 1 \subseteq limited
  <2>1. \A i \in 0 .. nkeys - 1 : \A j \in 1 .. retry[c] : (i + j) % nkeys = activeKey => i \in limited
    BY <1>3 DEF Rotated, Keys
  <2> DEFINE a == activeKey
             r == retry[c]
             n == nkeys
  <2>2. n \in 1 .. 3 /\ a \in 0 .. n - 1 /\ r \in 0 .. 2 /\ a \in limited
    BY <1>1, <1>2, <1>3
  <2>3. \A i \in 0 .. n - 1 : \A j \in 1 .. r : (i + j) % n = a => i \in limited
    BY <2>1
  <2> HIDE DEF a, r, n
  <2>4. /\ \A i \in 0 .. n - 1 : \A j \in 1 .. r + 1 : (i + j) % n = (a + 1) % n => i \in limited
        /\ r = 2 => 0 .. n - 1 \subseteq limited
    BY <2>2, <2>3, OneRotation
  <2> QED BY <2>4 DEF a, r, n
<1>5. CASE Count(c) < Retries
  <2>1. /\ phase' = [phase EXCEPT ![c] = "key"] /\ retry' = [retry EXCEPT ![c] = retry[c] + 1]
        /\ turn' = turn /\ result' = result
    BY <1>1, <1>5 DEF Retry, Move, Count, Retries
  <2>2. phase'[c] = "key" /\ retry'[c] = retry[c] + 1
    BY <1>1, <2>1
  <2>3. Rotated(retry[c])'
    BY <1>4, <2>2 DEF Rotated, Keys
  <2> QED BY <1>2, <1>3, <2>1, <2>2, <2>3 DEF PairInv, Order, Keys
<1>6. CASE ~(Count(c) < Retries)
  <2>1. retry[c] = 2 /\ NextModel(c, k)
    BY <1>1, <1>6 DEF Retry, Count, Retries
  <2>2. Keys \subseteq limited
    BY <1>4, <2>1 DEF Keys
  <2> QED BY <1>1, <2>1, <2>2, NextModelPair
<1> QED BY <1>5, <1>6

\* Every step of a call that is alone.
LEMMA PairStep ==
  ASSUME GeminiInv, NEW c \in Callers, CallStep(c), PairInv(c), nkeys <= Retries
  PROVE  PairInv(c)'
<1>1. /\ GeminiTypeOK /\ AskInv(c) /\ nkeys \in Nat /\ (nkeys > 0 => activeKey \in Keys)
      /\ phase \in [Callers -> Busy \cup {"idle", "return"}]
      /\ result \in [Callers -> {"none", "ok", "error", "exhausted"}]
  BY GeminiAssumption DEF GeminiInv, GeminiTypeOK, Busy
<1>2. CASE ReadKey(c)
  <2>1. /\ phase[c] = "key" /\ phase' = [phase EXCEPT ![c] = "answer"] /\ key' = [key EXCEPT ![c] = activeKey]
        /\ UNCHANGED <<nkeys, limited, missing, activeKey, first, turn, retry, result>>
    BY <1>2 DEF ReadKey, Move, ActiveAPIKey, env, shared
  <2>2. phase'[c] = "answer" /\ key'[c] = activeKey
    BY <1>1, <2>1 DEF GeminiTypeOK
  <2>3. Rotated(retry[c])' = Rotated(retry[c]) /\ Order(c)' = Order(c)
    BY <2>1 DEF Rotated, Keys, Order
  <2> QED BY <2>1, <2>2, <2>3 DEF PairInv, Busy, Keys
<1>3. CASE Answer(c)
  <2>1. /\ phase[c] = "answer" /\ phase[c] \in Busy /\ result[c] = "none" /\ nkeys > 0
        /\ UNCHANGED <<nkeys, limited, missing, activeKey, first, key>>
    BY <1>1, <1>3 DEF Answer, RateLimited, NotFound, NextModel, OtherError, Answered, Move, Return, AskInv,
      env, shared, Busy
  <2>2. CASE NotFound(c)
    BY <2>1, <2>2, NextModelPair DEF NotFound, ModelNotFound
  <2>3. CASE OtherError(c)
    <3>1. phase'[c] = "return" /\ result'[c] = "error"
      BY <1>1, <2>3 DEF OtherError, Return, Move
    <3> QED BY <3>1 DEF PairInv, Busy
  <2>4. CASE RateLimited(c) \/ Answered(c)
    <3>1. /\ UNCHANGED <<turn, retry, result>>
          /\ \/ phase'[c] = "rotate" /\ key[c] \in limited
             \/ phase'[c] = "wait" /\ nkeys = 1 /\ key[c] \in limited
             \/ phase'[c] = "remember"
      BY <1>1, <2>1, <2>4 DEF RateLimited, Answered, QuotaError, Move
    <3>2. /\ key[c] = activeKey /\ Rotated(retry[c])
          /\ \A i \in 1 .. Len(Models) : i < turn[c] => Keys \subseteq limited \/ Order(c)[i] \in missing
      BY <2>1 DEF PairInv, Busy
    <3>3. Rotated(retry[c])' = Rotated(retry[c]) /\ Order(c)' = Order(c) /\ Keys' = Keys
      BY <2>1, <3>1 DEF Rotated, Keys, Order
    <3> QED BY <2>1, <3>1, <3>2, <3>3 DEF PairInv
  <2> QED BY <1>3, <2>2, <2>3, <2>4 DEF Answer
<1>4. CASE RotateAPIKey(c)
  BY <1>4, RetryPair DEF RotateAPIKey, NextKey, env
<1>5. CASE Wait(c)
  <2>1. UNCHANGED <<nkeys, limited, missing, activeKey, first, key>>
    BY <1>5 DEF Wait, env, shared
  <2>2. CASE Retry(c, "wait")
    <3>1. phase[c] = "wait"
      BY <2>2 DEF Retry, NextModel, Move, Return
    <3>2. nkeys = 1 /\ activeKey = 0
      BY <1>1, <3>1 DEF PairInv, Keys
    <3>3. activeKey' = (activeKey + 1) % nkeys
      BY <2>1, <3>2
    <3> QED BY <2>1, <2>2, <3>3, RetryPair
  <2>3. CASE Return(c, "wait", "error")
    <3>1. phase'[c] = "return" /\ result'[c] = "error"
      BY <1>1, <2>3 DEF Return, Move
    <3> QED BY <3>1 DEF PairInv, Busy
  <2> QED BY <1>5, <2>2, <2>3 DEF Wait
<1>6. CASE Remember(c)
  <2>1. phase'[c] = "return" /\ result'[c] \in {"ok", "error"}
    BY <1>1, <1>6 DEF Remember, ParseResult, Return, Move
  <2> QED BY <2>1 DEF PairInv, Busy
<1>7. CASE Again(c)
  <2>1. phase'[c] = "idle" /\ result'[c] = "none"
    BY <1>1, <1>7 DEF Again, Move
  <2> QED BY <2>1 DEF PairInv, Busy
<1> QED BY <1>2, <1>3, <1>4, <1>5, <1>6, <1>7 DEF CallStep

LEMMA AloneNext == GeminiInv /\ AloneInv /\ [GeminiNext]_geminiVars => AloneInv'
<1> SUFFICES ASSUME GeminiInv, AloneInv, [GeminiNext]_geminiVars PROVE AloneInv'
  OBVIOUS
<1>1. /\ GeminiTypeOK /\ \A c \in Callers : AskInv(c)
      /\ alone \in SUBSET Callers /\ phase \in [Callers -> Busy \cup {"idle", "return"}]
      /\ result \in [Callers -> {"none", "ok", "error", "exhausted"}]
  BY DEF GeminiInv, GeminiTypeOK, Busy
<1>2. CASE UNCHANGED geminiVars
  BY <1>2 DEF AloneInv, Undisturbed, PairInv, Rotated, Keys, Order, geminiVars, env, shared, own
<1>3. ASSUME NEW c \in Callers, Cancel(c) PROVE AloneInv'
  BY <1>3 DEF Cancel, AloneInv, Undisturbed, PairInv, Rotated, Keys, Order, env, shared, own
<1>4. ASSUME NEW c \in Callers, Start(c) PROVE AloneInv'
  <2> SUFFICES ASSUME NEW a \in alone' PROVE Undisturbed(a)' /\ (nkeys' <= Retries => PairInv(a)')
    BY DEF AloneInv
  <2>1. a = c /\ \A d \in Callers \ {c} : phase[d] = "idle"
    BY <1>4 DEF Start
  <2>2. Undisturbed(c)'
    BY <1>1, <1>4, <2>1, OthersSame DEF Undisturbed, Same
  <2>3. phase[c] = "idle" /\ result[c] = "none" /\ turn'[c] = 1 /\ retry'[c] = 0
    BY <1>1, <1>4 DEF Start, Move, Return, AskInv, GeminiTypeOK
  <2>4. (phase'[c] = "key" /\ result'[c] = "none") \/ (phase'[c] = "return" /\ result'[c] = "error")
    BY <1>1, <1>4, <2>3 DEF Start, Move, Return
  <2>5. Rotated(retry[c])'
    BY <2>3 DEF Rotated
  <2>6. PairInv(c)'
    BY <2>3, <2>4, <2>5 DEF PairInv, Busy
  <2> QED BY <2>1, <2>2, <2>6
<1>5. ASSUME NEW c \in Callers, CallStep(c), UNCHANGED alone PROVE AloneInv'
  <2> SUFFICES ASSUME NEW a \in alone PROVE Undisturbed(a)' /\ (nkeys' <= Retries => PairInv(a)')
    BY <1>5 DEF AloneInv
  <2>1. phase[c] # "idle" /\ nkeys' = nkeys
    BY <1>5 DEF CallStep, ReadKey, Answer, RateLimited, NotFound, OtherError, Answered, RotateAPIKey, Wait,
      Retry, NextModel, Remember, ParseResult, Again, Move, Return, env
  <2>2. Undisturbed(a) /\ a \in Callers /\ (nkeys <= Retries => PairInv(a))
    BY <1>1 DEF AloneInv
  <2>3. a = c
    BY <2>1, <2>2 DEF Undisturbed
  <2>4. Undisturbed(c)'
    BY <1>1, <1>5, <2>2, <2>3, OthersSame DEF Undisturbed, Same
  <2> QED BY <1>5, <2>1, <2>2, <2>3, <2>4, PairStep
<1> QED BY <1>2, <1>3, <1>4, <1>5 DEF GeminiNext

\* For any number of models and of callers: a caller that nobody has overlapped and
\* that has at most as many keys as it makes attempts (three) gives up only when
\* every key is over its quota or no model exists.
THEOREM HealthyPairIsFound == GeminiSpec => []HealthyPairFound
<1>1. GeminiInit => AloneInv
  BY DEF GeminiInit, AloneInv
<1>2. GeminiTypeOK /\ AloneInv => HealthyPairFound
  BY DEF AloneInv, PairInv, HealthyPairFound, GeminiTypeOK
<1>3. GeminiInv => GeminiTypeOK
  BY DEF GeminiInv
<1> QED BY <1>1, <1>2, <1>3, GeminiInvHolds, AloneNext, PTL DEF GeminiSpec

=============================================================================
