-------------------------- MODULE PriceUpdateProofs --------------------------
(***************************************************************************)
(* A run leaves fresh prices, and a known open price stays known: for any  *)
(* symbols, runs and quotes, whatever fails and whoever writes meanwhile.  *)
(***************************************************************************)
EXTENDS PriceUpdate, FiniteSetTheorems, SequenceTheorems, TLAPS

Ticker == Symbols \cup {Index}

Shape ==
  /\ TypeOK
  /\ batch \in [Runs -> Row \cup {Null}]

Fresh(r, s) == prices[s] # Null /\ prices[s].close >= began[r]

\* A stock a run has listed is still to do, or has its price, or is excused; the price
\* the run holds is no older than the run.
RunOK(r) ==
  /\ tracked[r] \subseteq stocks /\ began[r] <= quote
  /\ pc[r] = "save" => batch[r].close >= began[r]
  /\ pc[r] = "done" => todo[r] = <<>>
  /\ pc[r] # "idle" =>
       \A s \in tracked[r] \ excused[r] : s \in Range(todo[r]) \/ Fresh(r, s)

PriceInv == Shape /\ \A r \in Runs : RunOK(r)

\* The symbol a run is at, and the rest.
LEMMA NextSymbol ==
  ASSUME NEW s \in Seq(Ticker), s # <<>>
  PROVE  /\ Head(s) \in Ticker /\ Tail(s) \in Seq(Ticker)
         /\ Range(s) \subseteq Range(Tail(s)) \cup {Head(s)}
<1> DEFINE t == Tail(s)
<1>1. /\ Len(t) = Len(s) - 1 /\ Len(s) \in Nat \ {0} /\ Head(s) = s[1]
      /\ \A k \in 1 .. Len(t) : t[k] = s[k + 1]
      /\ DOMAIN s = 1 .. Len(s) /\ DOMAIN t = 1 .. Len(t)
      /\ Head(s) \in Ticker /\ t \in Seq(Ticker)
  OBVIOUS
<1> HIDE DEF t
<1>2. ASSUME NEW k \in 1 .. Len(s) PROVE s[k] = Head(s) \/ s[k] \in Range(t)
  <2>1. k = 1 \/ (k - 1 \in 1 .. Len(t) /\ k - 1 + 1 = k)
    BY <1>1
  <2> QED BY <1>1, <2>1 DEF Range
<1>3. Range(s) \subseteq Range(t) \cup {Head(s)}
  BY <1>1, <1>2 DEF Range
<1> QED BY <1>1, <1>3 DEF t

\* ListAllSymbols leaves no stock out.
LEMMA AllListed ==
  ASSUME NEW S \in SUBSET Symbols
  PROVE  /\ <<Index>> \o SetToSeq(S) \in Seq(Ticker)
         /\ S \subseteq Range(<<Index>> \o SetToSeq(S))
<1> DEFINE n == Cardinality(S)
           q == SetToSeq(S)
           w == <<Index>> \o q
<1>1. IsFiniteSet(S) /\ n \in Nat /\ ExistsBijection(1 .. n, S)
  BY PriceAssumption, FS_Subset, FS_CardinalityType
<1>2. \E f \in [1 .. n -> S] : IsInjective(f)
  BY <1>1 DEF ExistsBijection, Bijection, Injection
<1>3. q \in [1 .. n -> S] /\ IsInjective(q)
  BY <1>2 DEF SetToSeq
<1>4. q \in Injection(1 .. n, S) /\ Cardinality(1 .. n) = n
  <2>1. Cardinality(1 .. n) = n
    <3> HIDE DEF n
    <3> QED BY <1>1, FS_Interval
  <2>2. q \in Injection(1 .. n, S)
    <3> HIDE DEF n, q
    <3> QED BY <1>3 DEF Injection
  <2> QED BY <2>1, <2>2
<1> HIDE DEF n, q
<1>5. q \in Surjection(1 .. n, S)
  BY <1>1, <1>4, FS_Injection DEF n
<1>6. q \in Seq(Ticker) /\ Len(q) = n /\ <<Index>> \in Seq(Ticker) /\ Len(<<Index>>) = 1
  BY <1>1, <1>3 DEF Ticker
<1>7. /\ w \in Seq(Ticker) /\ Len(w) = 1 + n /\ DOMAIN w = 1 .. 1 + n
      /\ \A i \in 1 .. 1 + n : w[i] = IF i <= 1 THEN <<Index>>[i] ELSE q[i - 1]
  BY <1>6, ConcatProperties, LenProperties
<1> HIDE DEF w
<1>8. ASSUME NEW s \in S PROVE s \in Range(w)
  <2>1. PICK k \in 1 .. n : q[k] = s
    BY <1>5 DEF Surjection
  <2>2. k + 1 \in 1 .. 1 + n /\ w[k + 1] = s
    BY <1>1, <1>7, <2>1
  <2> QED BY <1>7, <2>2 DEF Range
<1> QED BY <1>7, <1>8 DEF w, q

\* A stored row takes the new close price, and keeps the old open price if it has none.
LEMMA MergedRow ==
  ASSUME NEW new \in Row, NEW old \in Row \cup {Null}
  PROVE  /\ Merged(old, new) \in Row /\ Merged(old, new).close = new.close
         /\ Merged(old, new) # Null
         /\ old # Null /\ old.open # Null => Merged(old, new).open # Null
<1>1. CASE old = Null \/ new.open # Null
  BY <1>1, PriceAssumption DEF Merged
<1>2. CASE old # Null /\ new.open = Null
  <2>1. Merged(old, new) = [new EXCEPT !.open = old.open]
    BY <1>2 DEF Merged
  <2>2. old.open \in Quote \cup {Null}
    BY <1>2 DEF Row
  <2> QED BY <2>1, <2>2, PriceAssumption DEF Row
<1> QED BY <1>1, <1>2

\* What storing a row does to the table.
LEMMA StoredRow ==
  ASSUME Shape, NEW s \in Ticker, NEW row \in Row, Upsert(s, row)
  PROVE  /\ prices' \in [Ticker -> Row \cup {Null}]
         /\ prices'[s] # Null /\ prices'[s].close = row.close
         /\ \A t \in Ticker \ {s} : prices'[t] = prices[t]
         /\ \A t \in Ticker : prices[t] # Null /\ prices[t].open # Null => prices'[t].open # Null
<1>1. prices \in [Ticker -> Row \cup {Null}] /\ prices' = [prices EXCEPT ![s] = Merged(prices[s], row)]
  BY DEF Shape, TypeOK, Upsert, Ticker
<1>2. /\ Merged(prices[s], row) \in Row /\ Merged(prices[s], row).close = row.close
      /\ Merged(prices[s], row) # Null
      /\ prices[s] # Null /\ prices[s].open # Null => Merged(prices[s], row).open # Null
  BY <1>1, MergedRow
<1> QED BY <1>1, <1>2
-----------------------------------------------------------------------------
(* The steps.                                                              *)

\* The types, as the steps use them.
LEMMA Types ==
  ASSUME Shape
  PROVE  /\ stocks \subseteq Symbols /\ prices \in [Ticker -> Row \cup {Null}] /\ quote \in Quote
         /\ pc \in [Runs -> {"idle", "loop", "save", "done"}] /\ todo \in [Runs -> Seq(Ticker)]
         /\ batch \in [Runs -> Row \cup {Null}]
         /\ \A r \in Runs : pc[r] = "save" => todo[r] # <<>> /\ batch[r] \in Row
         /\ tracked \in [Runs -> SUBSET Symbols] /\ began \in [Runs -> Quote]
         /\ excused \in [Runs -> SUBSET Ticker]
BY DEF Shape, TypeOK, Ticker

\* What a step that leaves the tables alone does to the run that takes it.
OwnStep(r) ==
  /\ UNCHANGED <<stocks, prices, quote>>
  /\ \A q \in Runs \ {r} :
       /\ pc'[q] = pc[q] /\ todo'[q] = todo[q] /\ batch'[q] = batch[q]
       /\ tracked'[q] = tracked[q] /\ began'[q] = began[q] /\ excused'[q] = excused[q]

\* The others do not notice it.
LEMMA OwnOthers ==
  ASSUME PriceInv, NEW r \in Runs, OwnStep(r), NEW q \in Runs \ {r}
  PROVE  RunOK(q)'
BY DEF PriceInv, RunOK, OwnStep, Fresh

\* A run that begins has everything before it.
LEMMA BeginStep ==
  ASSUME PriceInv, NEW r \in Runs, ListAll(r) \/ FetchOne(r)
  PROVE  PriceInv'
<1>1. PICK seq \in Seq(Ticker), set \in SUBSET stocks : set \subseteq Range(seq) /\ Begin(r, seq, set)
  <2>1. CASE ListAll(r)
    BY <2>1, AllListed, Types DEF PriceInv, ListAll
  <2>2. CASE FetchOne(r)
    <3>1. PICK s \in Symbols : Begin(r, <<s>>, {s} \cap stocks)
      BY <2>2 DEF FetchOne
    <3>2. <<s>> \in Seq(Ticker) /\ {s} \cap stocks \subseteq Range(<<s>>)
      BY DEF Ticker, Range
    <3> QED BY <3>1, <3>2
  <2> QED BY <2>1, <2>2
<1>2. /\ pc' = [pc EXCEPT ![r] = "loop"] /\ todo' = [todo EXCEPT ![r] = seq]
      /\ tracked' = [tracked EXCEPT ![r] = set] /\ began' = [began EXCEPT ![r] = quote]
      /\ excused' = [excused EXCEPT ![r] = {}] /\ UNCHANGED <<stocks, prices, quote, batch>>
  BY <1>1 DEF Begin, Move
<1>t. Shape
  BY DEF PriceInv
<1>3. /\ pc' \in [Runs -> {"idle", "loop", "save", "done"}] /\ todo' \in [Runs -> Seq(Ticker)]
      /\ tracked' \in [Runs -> SUBSET Symbols] /\ began' \in [Runs -> Quote]
      /\ excused' \in [Runs -> SUBSET Ticker]
  BY <1>t, <1>2, Types
<1>4. pc'[r] = "loop" /\ todo'[r] = seq /\ tracked'[r] = set /\ began'[r] = quote
  BY <1>t, <1>2, Types
<1>5. OwnStep(r)
  BY <1>t, <1>2, Types DEF OwnStep
<1>6. \A q \in Runs : pc'[q] = "save" => todo'[q] # <<>> /\ batch'[q] \in Row
  BY <1>t, <1>2, <1>4, <1>5, Types DEF OwnStep
<1>7. Shape'
  BY <1>t, <1>2, <1>3, <1>6, Types DEF Shape, TypeOK, Ticker
<1>8. RunOK(r)'
  <2>1. quote \in Int
    BY <1>t, Types DEF Quote
  <2> QED BY <1>1, <1>2, <1>4, <2>1 DEF RunOK
<1> QED BY <1>5, <1>7, <1>8, OwnOthers DEF PriceInv

\* Yahoo answers with its latest quote, or the symbol is skipped.
LEMMA FetchStep ==
  ASSUME PriceInv, NEW r \in Runs, Fetch(r)
  PROVE  PriceInv'
<1> DEFINE s == Head(todo[r])
<1>t. Shape /\ RunOK(r)
  BY DEF PriceInv
<1>1. todo[r] # <<>> /\ todo[r] \in Seq(Ticker) /\ UNCHANGED <<stocks, prices, quote, tracked, began>>
  BY <1>t, Types DEF Fetch
<1>2. s \in Ticker /\ Tail(todo[r]) \in Seq(Ticker) /\ Range(todo[r]) \subseteq Range(Tail(todo[r])) \cup {s}
  BY <1>1, NextSymbol
<1> HIDE DEF s
<1>3. CASE NoData(r)
  <2>1. /\ pc[r] = "loop" /\ UNCHANGED <<pc, batch>>
        /\ todo' = [todo EXCEPT ![r] = Tail(todo[r])]
        /\ excused' = [excused EXCEPT ![r] = excused[r] \cup {s}]
    BY <1>3 DEF NoData, Skip, Continue, Current, s
  <2>2. todo' \in [Runs -> Seq(Ticker)] /\ excused' \in [Runs -> SUBSET Ticker]
    BY <1>t, <1>2, <2>1, Types
  <2>3. OwnStep(r) /\ todo'[r] = Tail(todo[r]) /\ excused'[r] = excused[r] \cup {s}
    BY <1>t, <1>1, <2>1, Types DEF OwnStep
  <2>4. \A q \in Runs : pc'[q] = "save" => todo'[q] # <<>> /\ batch'[q] \in Row
    BY <1>t, <2>1, <2>3, Types DEF OwnStep
  <2>5. Shape'
    BY <1>t, <1>1, <2>1, <2>2, <2>4, Types DEF Shape, TypeOK, Ticker
  <2>6. RunOK(r)'
    BY <1>t, <1>1, <1>2, <2>1, <2>3 DEF RunOK, Fresh
  <2> QED BY <2>3, <2>5, <2>6, OwnOthers DEF PriceInv
<1>4. CASE Data(r)
  <2>1. PICK o \in {quote, Null} : batch' = [batch EXCEPT ![r] = [close |-> quote, open |-> o]]
    BY <1>4 DEF Data
  <2>2. pc' = [pc EXCEPT ![r] = "save"] /\ UNCHANGED <<todo, excused>>
    BY <1>4 DEF Data, Move
  <2>3. [close |-> quote, open |-> o] \in Row
    BY <1>t, Types, PriceAssumption DEF Row, Quote
  <2>4. OwnStep(r) /\ pc'[r] = "save" /\ batch'[r] = [close |-> quote, open |-> o]
    BY <1>t, <1>1, <2>1, <2>2, Types DEF OwnStep
  <2>5. /\ batch' \in [Runs -> Row \cup {Null}]
        /\ pc' \in [Runs -> {"idle", "loop", "save", "done"}]
    BY <1>t, <2>1, <2>2, <2>3, Types
  <2>6. \A q \in Runs : pc'[q] = "save" => todo'[q] # <<>> /\ batch'[q] \in Row
    BY <1>t, <1>1, <2>2, <2>3, <2>4, Types DEF OwnStep
  <2>7. Shape'
    BY <1>t, <1>1, <2>2, <2>5, <2>6, Types DEF Shape, TypeOK, Ticker
  <2>8. batch'[r].close >= began'[r] /\ began'[r] = began[r] /\ pc[r] = "loop"
    <3>1. quote \in Int /\ began[r] \in Int /\ began[r] <= quote
      BY <1>t, Types DEF RunOK, Quote
    <3>2. quote >= began[r]
      BY <3>1
    <3> QED BY <1>1, <1>4, <2>4, <3>2 DEF Data, Move
  <2>9. RunOK(r)'
    BY <1>t, <1>1, <2>2, <2>4, <2>8 DEF RunOK, Fresh
  <2> QED BY <2>4, <2>7, <2>9, OwnOthers DEF PriceInv
<1> QED BY <1>3, <1>4 DEF Fetch

\* Storing a row for s excuses everybody else who is at work.
LEMMA StoredOthers ==
  ASSUME PriceInv, NEW s \in Ticker, NEW row \in Row, NEW own \in SUBSET Runs,
         Upsert(s, row), StoredBy(own, s), UNCHANGED <<stocks, quote>>,
         NEW q \in Runs \ own,
         pc'[q] = pc[q], todo'[q] = todo[q], batch'[q] = batch[q], tracked'[q] = tracked[q],
         began'[q] = began[q]
  PROVE  RunOK(q)'
<1>t. Shape /\ RunOK(q)
  BY DEF PriceInv
<1>1. excused'[q] = IF pc[q] = "idle" THEN excused[q] ELSE excused[q] \cup {s}
  BY DEF StoredBy
<1>2. \A t \in Ticker \ {s} : prices'[t] = prices[t]
  BY <1>t, StoredRow
<1>3. tracked[q] \subseteq Ticker
  BY <1>t, Types DEF Ticker
<1> QED BY <1>t, <1>1, <1>2, <1>3 DEF RunOK, Fresh

\* The types after a row has been stored.
LEMMA StoredTypes ==
  ASSUME Shape, NEW s \in Ticker, NEW row \in Row, NEW own \in SUBSET Runs,
         Upsert(s, row), StoredBy(own, s)
  PROVE  prices' \in [Ticker -> Row \cup {Null}] /\ excused' \in [Runs -> SUBSET Ticker]
<1>1. prices' \in [Ticker -> Row \cup {Null}]
  BY StoredRow
<1>2. \A r \in Runs : excused[r] \subseteq Ticker
  BY Types
<1>3. excused' \in [Runs -> SUBSET Ticker]
  BY <1>2 DEF StoredBy
<1> QED BY <1>1, <1>3

\* The run's price is stored, or rejected as its stock does not exist, or lost.
LEMMA SaveStep ==
  ASSUME PriceInv, NEW r \in Runs, Save(r)
  PROVE  PriceInv'
<1> DEFINE s == Head(todo[r])
           row == batch[r]
<1>t. Shape /\ RunOK(r)
  BY DEF PriceInv
<1>1. /\ pc[r] = "save" /\ pc' = [pc EXCEPT ![r] = "loop"] /\ batch' = [batch EXCEPT ![r] = Null]
      /\ todo' = [todo EXCEPT ![r] = Tail(todo[r])]
      /\ UNCHANGED <<stocks, quote, tracked, began>>
  BY DEF Save, Move, Skip, Continue
<1>2. todo[r] # <<>> /\ todo[r] \in Seq(Ticker) /\ row \in Row /\ row.close >= began[r]
  BY <1>t, <1>1, Types DEF RunOK
<1>3. s \in Ticker /\ Tail(todo[r]) \in Seq(Ticker) /\ Range(todo[r]) \subseteq Range(Tail(todo[r])) \cup {s}
  BY <1>2, NextSymbol
<1> HIDE DEF s, row
<1>4. /\ pc' \in [Runs -> {"idle", "loop", "save", "done"}] /\ todo' \in [Runs -> Seq(Ticker)]
      /\ batch' \in [Runs -> Row \cup {Null}]
  BY <1>t, <1>1, <1>3, Types
<1>5. /\ pc'[r] = "loop" /\ todo'[r] = Tail(todo[r])
      /\ \A q \in Runs \ {r} : pc'[q] = pc[q] /\ todo'[q] = todo[q] /\ batch'[q] = batch[q]
  BY <1>t, <1>1, Types
<1>6. \A q \in Runs : pc'[q] = "save" => todo'[q] # <<>> /\ batch'[q] \in Row
  BY <1>t, <1>5, Types
<1>7. CASE Upsert(s, row) /\ StoredBy({r}, s)
  <2>1. prices' \in [Ticker -> Row \cup {Null}] /\ excused' \in [Runs -> SUBSET Ticker]
    BY <1>t, <1>2, <1>3, <1>7, StoredTypes
  <2>2. Shape'
    BY <1>t, <1>1, <1>4, <1>6, <2>1, Types DEF Shape, TypeOK, Ticker
  <2>3. /\ prices'[s] # Null /\ prices'[s].close = row.close
        /\ \A t \in Ticker \ {s} : prices'[t] = prices[t]
    BY <1>t, <1>2, <1>3, <1>7, StoredRow
  <2>4. excused'[r] = excused[r] \ {s}
    BY <1>7 DEF StoredBy
  <2>5. tracked[r] \subseteq Ticker
    BY <1>t, Types DEF Ticker
  <2>6. prices'[s] # Null /\ prices'[s].close >= began'[r]
    BY <1>1, <1>2, <2>3
  <2>7. ASSUME NEW t \in tracked[r] \ (excused[r] \ {s})
        PROVE  t \in Range(Tail(todo[r])) \/ Fresh(r, t)'
    <3>1. CASE t = s
      BY <2>6, <3>1 DEF Fresh
    <3>2. CASE t # s
      <4>1. t \in tracked[r] \ excused[r] /\ prices'[t] = prices[t] /\ began' = began
        BY <1>1, <2>3, <2>5, <3>2
      <4>2. t \in Range(todo[r]) \/ Fresh(r, t)
        BY <1>t, <1>1, <4>1 DEF RunOK
      <4> QED BY <1>3, <3>2, <4>1, <4>2 DEF Fresh
    <3> QED BY <3>1, <3>2
  <2>8. RunOK(r)'
    BY <1>t, <1>1, <1>5, <2>4, <2>7 DEF RunOK
  <2>9. \A q \in Runs \ {r} : RunOK(q)'
    BY <1>1, <1>2, <1>3, <1>5, <1>7, StoredOthers
  <2> QED BY <2>2, <2>8, <2>9 DEF PriceInv
<1>8. CASE UNCHANGED <<prices, excused>> /\ s \notin stocks
  <2>1. Shape' /\ OwnStep(r)
    BY <1>t, <1>1, <1>4, <1>5, <1>6, <1>8, Types DEF Shape, TypeOK, Ticker, OwnStep
  <2>2. RunOK(r)'
    BY <1>t, <1>1, <1>3, <1>5, <1>8 DEF RunOK, Fresh
  <2> QED BY <2>1, <2>2, OwnOthers DEF PriceInv
<1>9. CASE UNCHANGED prices /\ excused' = [excused EXCEPT ![r] = excused[r] \cup {s}]
  <2>1. excused' \in [Runs -> SUBSET Ticker] /\ excused'[r] = excused[r] \cup {s}
    BY <1>t, <1>3, <1>9, Types
  <2>2. OwnStep(r)
    BY <1>t, <1>1, <1>5, <1>9, Types DEF OwnStep
  <2>3. Shape'
    BY <1>t, <1>1, <1>4, <1>6, <1>9, <2>1, Types DEF Shape, TypeOK, Ticker
  <2>4. RunOK(r)'
    BY <1>t, <1>1, <1>3, <1>5, <1>9, <2>1 DEF RunOK, Fresh
  <2> QED BY <2>2, <2>3, <2>4, OwnOthers DEF PriceInv
<1> QED BY <1>7, <1>8, <1>9 DEF Save, Skip, Current, s, row
\* The rest of the system: imports, new stocks, trading, the end of a run, a crash.
LEMMA OtherStep ==
  ASSUME PriceInv,
         (\E r \in Runs : End(r) \/ Again(r)) \/ Import \/ AddStock \/ Trade \/ Crash
  PROVE  PriceInv'
<1>t. Shape /\ \A r \in Runs : RunOK(r)
  BY DEF PriceInv
<1>1. ASSUME NEW r \in Runs, End(r) \/ Again(r) PROVE PriceInv'
  <2>1. /\ UNCHANGED <<stocks, prices, quote, todo, batch, tracked, began, excused>>
        /\ \/ pc[r] = "loop" /\ todo[r] = <<>> /\ pc' = [pc EXCEPT ![r] = "done"]
           \/ pc' = [pc EXCEPT ![r] = "idle"]
    BY <1>1 DEF End, Again, Move
  <2>2. OwnStep(r)
    BY <1>t, <2>1, Types DEF OwnStep
  <2>3. Shape' /\ \/ pc[r] = "loop" /\ todo[r] = <<>> /\ pc'[r] = "done"
                  \/ pc'[r] = "idle"
    BY <1>t, <2>1, Types DEF Shape, TypeOK, Ticker
  <2>4. RunOK(r)'
    BY <1>t, <2>1, <2>3 DEF RunOK, Fresh
  <2> QED BY <2>2, <2>3, <2>4, OwnOthers DEF PriceInv
<1>2. CASE Import
  <2>1. PICK s \in stocks, c \in Imported, o \in {1, Null} :
          Upsert(s, [close |-> c, open |-> o]) /\ StoredBy({}, s)
    BY <1>2 DEF Import
  <2>2. s \in Ticker /\ [close |-> c, open |-> o] \in Row
    BY <1>t, Types, PriceAssumption DEF Ticker, Row, Quote
  <2>3. UNCHANGED <<stocks, quote, pc, todo, batch, tracked, began>>
    BY <1>2 DEF Import
  <2>4. prices' \in [Ticker -> Row \cup {Null}] /\ excused' \in [Runs -> SUBSET Ticker]
    BY <1>t, <2>1, <2>2, StoredTypes
  <2>5. Shape'
    BY <1>t, <2>3, <2>4, Types DEF Shape, TypeOK, Ticker
  <2>6. \A q \in Runs \ {} : RunOK(q)'
    BY <2>1, <2>2, <2>3, StoredOthers
  <2> QED BY <2>5, <2>6 DEF PriceInv
<1>3. CASE AddStock
  <2>1. /\ stocks \subseteq stocks' /\ stocks' \subseteq Symbols
        /\ UNCHANGED <<prices, quote, pc, todo, batch, tracked, began, excused>>
    BY <1>t, <1>3, Types DEF AddStock, run
  <2> QED BY <1>t, <2>1 DEF PriceInv, Shape, TypeOK, RunOK, Fresh
<1>4. CASE Trade
  <2>1. /\ quote' \in Quote /\ \A r \in Runs : began[r] <= quote => began[r] <= quote'
        /\ UNCHANGED <<stocks, prices, pc, todo, batch, tracked, began, excused>>
    <3>1. quote \in Quote /\ quote < MaxQuote /\ quote' = quote + 1 /\ MaxQuote \in Nat
          /\ \A r \in Runs : began[r] \in Quote
      BY <1>t, <1>4, Types, PriceAssumption DEF Trade
    <3>2. quote' \in Quote /\ \A r \in Runs : began[r] <= quote => began[r] <= quote'
      BY <3>1 DEF Quote
    <3> QED BY <1>4, <3>2 DEF Trade, run
  <2> QED BY <1>t, <2>1 DEF PriceInv, Shape, TypeOK, RunOK, Fresh
<1>5. CASE Crash
  <2>1. /\ \A r \in Runs : pc'[r] = "idle"
        /\ pc' \in [Runs -> {"idle", "loop", "save", "done"}]
        /\ todo' \in [Runs -> Seq(Ticker)] /\ batch' \in [Runs -> Row \cup {Null}]
        /\ UNCHANGED <<stocks, prices, quote, tracked, began, excused>>
    BY <1>5, EmptySeq DEF Crash
  <2>2. Shape'
    BY <1>t, <2>1, Types DEF Shape, TypeOK, Ticker
  <2> QED BY <1>t, <2>1, <2>2 DEF PriceInv, RunOK
<1> QED BY <1>1, <1>2, <1>3, <1>4, <1>5

\* Every step keeps the invariant.
LEMMA NextPrice == PriceInv /\ [Next]_vars => PriceInv'
<1>1. CASE UNCHANGED vars
  BY <1>1 DEF vars, run, PriceInv, Shape, TypeOK, RunOK, Fresh
<1> QED BY <1>1, BeginStep, FetchStep, SaveStep, OtherStep DEF Next, LoopStep

\* It holds at the start.
LEMMA InitPrice == Init => PriceInv
<1> SUFFICES ASSUME Init PROVE PriceInv
  OBVIOUS
<1>1. 1 \in Quote /\ <<>> \in Seq(Ticker)
  BY PriceAssumption, EmptySeq DEF Quote
<1>2. Shape
  BY <1>1 DEF Init, Shape, TypeOK, Ticker
<1> QED BY <1>2 DEF Init, PriceInv, RunOK

\* In every reachable state.
LEMMA PricesRight == Spec => []PriceInv
BY InitPrice, NextPrice, PTL DEF Spec

\* When a run ends, every stock it listed has a price at least as recent as the run,
\* unless the run failed for it or somebody else has stored it since.
THEOREM AlwaysFreshAtEnd == Spec => []FreshAtEnd
<1>1. PriceInv => FreshAtEnd
  <2> SUFFICES ASSUME PriceInv, NEW r \in Runs, pc[r] = "done", NEW s \in tracked[r] \ excused[r]
               PROVE  Fresh(r, s)
    BY DEF FreshAtEnd, Fresh
  <2>1. todo[r] = <<>> /\ (s \in Range(todo[r]) \/ Fresh(r, s))
    BY DEF PriceInv, RunOK
  <2>2. Range(<<>>) = {}
    BY DEF Range
  <2> QED BY <2>1, <2>2
<1> QED BY <1>1, PricesRight, PTL

\* A known open price of a day stays known, whoever writes the row next.
THEOREM OptionalAlwaysKept == Spec => OptionalKept
<1>1. ASSUME PriceInv, [Next]_vars, NEW s \in Symbols, prices[s] # Null, prices[s].open # Null
      PROVE  prices'[s].open # Null
  <2>t. Shape
    BY <1>1 DEF PriceInv
  <2>1. CASE UNCHANGED prices
    BY <1>1, <2>1
  <2>2. ASSUME NEW t \in Ticker, NEW row \in Row, Upsert(t, row) PROVE prices'[s].open # Null
    BY <1>1, <2>t, <2>2, StoredRow DEF Ticker
  <2>3. ASSUME NEW r \in Runs, Save(r), ~UNCHANGED prices PROVE prices'[s].open # Null
    <3>1. /\ pc[r] = "save" /\ Upsert(Head(todo[r]), batch[r])
      BY <2>3 DEF Save, Move, Current
    <3>2. Head(todo[r]) \in Ticker /\ batch[r] \in Row
      BY <2>t, <3>1, Types, NextSymbol
    <3> QED BY <2>2, <3>1, <3>2
  <2>4. ASSUME Import PROVE prices'[s].open # Null
    <3>1. PICK t \in stocks, c \in Imported, o \in {1, Null} : Upsert(t, [close |-> c, open |-> o])
      BY <2>4 DEF Import
    <3>2. t \in Ticker /\ [close |-> c, open |-> o] \in Row
      BY <2>t, Types, PriceAssumption DEF Ticker, Row, Quote
    <3> QED BY <2>2, <3>1, <3>2
  <2>5. ASSUME NEW r \in Runs, ListAll(r) \/ FetchOne(r) \/ Fetch(r) \/ End(r) \/ Again(r)
        PROVE  UNCHANGED prices
    BY <2>5 DEF ListAll, FetchOne, Begin, Fetch, End, Again
  <2>6. AddStock \/ Trade \/ Crash \/ UNCHANGED vars => UNCHANGED prices
    BY DEF AddStock, Trade, Crash, vars
  <2> QED BY <1>1, <2>1, <2>3, <2>4, <2>5, <2>6 DEF Next, LoopStep
<1>2. PriceInv /\ [Next]_vars =>
        [\A s \in Symbols : prices[s] # Null /\ prices[s].open # Null => prices'[s].open # Null]_vars
  BY <1>1
<1> QED BY <1>2, PricesRight, PTL DEF Spec, OptionalKept

\* The types: a run that has a price to store has the symbol it is for, whatever
\* crashes and whoever stores the same symbol.
THEOREM TypeCorrect == Spec => []TypeOK
<1>1. PriceInv => TypeOK
  BY DEF PriceInv, Shape
<1> QED BY <1>1, PricesRight, PTL
=============================================================================
