----------------------------- MODULE PriceUpdate -----------------------------
(***************************************************************************)
(* How prices reach the table stock_prices: the cron job of                *)
(* ingestion/price_scheduler.go and POST /import/refresh-prices run the    *)
(* same loop over all symbols, POST /import/fetch-prices/:symbol is that   *)
(* loop for one symbol, and POST /import/prices stores what a client       *)
(* sends.  Nothing keeps two of them apart.                                *)
(*                                                                         *)
(* Yahoo's rows of earlier days are final, so only the row of today is     *)
(* kept; a price is the number of Yahoo's quote it was read from, 0 the    *)
(* zero of a close price that was not given.  UpsertBatch is one implicit  *)
(* transaction of PostgreSQL: one step.                                    *)
(***************************************************************************)
EXTENDS Integers, Sequences, FiniteSets, SequencesExt

CONSTANTS
  Runs,       \* goroutines that run the loop
  Symbols,    \* symbols the articles name
  Index,      \* "IHSG", fetched as ^JKSE
  Imported,   \* close prices clients send to /import/prices
  MaxQuote,   \* bound on the quotes Yahoo goes through
  Null        \* SQL NULL; no row

Quote == 1 .. MaxQuote
Row   == [close : 0 .. MaxQuote, open : Quote \cup {Null}]

ASSUME PriceAssumption ==
  /\ Index \notin Symbols /\ Null \notin Symbols
  /\ MaxQuote \in Nat \ {0} /\ Imported \subseteq 0 .. MaxQuote
  /\ Null \notin Nat /\ Null \notin Row
  /\ IsFiniteSet(Symbols)

VARIABLES
  stocks,     \* table stocks: its symbols
  prices,     \* table stock_prices: today's row of each symbol, Null for none
  quote,      \* Yahoo's latest quote
  pc,         \* where each run is
  todo,       \* symbols it has still to do, the current one first
  batch,      \* what FetchPrices returned
  tracked,    \* history: the symbols it listed
  began,      \* history: Yahoo's quote when it listed them
  excused     \* history: symbols without data, lost to a failing network or
              \* database, or stored by somebody else after it

run  == <<pc, todo, batch, tracked, began, excused>>
vars == <<stocks, prices, quote, run>>

TypeOK ==
  /\ stocks \in SUBSET Symbols
  /\ prices \in [Symbols \cup {Index} -> Row \cup {Null}]
  /\ quote \in Quote
  /\ pc \in [Runs -> {"idle", "loop", "save", "done"}]
  /\ todo \in [Runs -> Seq(Symbols \cup {Index})]
  /\ \A r \in Runs : pc[r] = "save" => todo[r] # <<>> /\ batch[r] \in Row
  /\ tracked \in [Runs -> SUBSET Symbols]
  /\ began \in [Runs -> Quote]
  /\ excused \in [Runs -> SUBSET (Symbols \cup {Index})]

Init ==
  /\ stocks = {} /\ quote = 1
  /\ prices = [s \in Symbols \cup {Index} |-> Null]
  /\ pc = [r \in Runs |-> "idle"]
  /\ todo = [r \in Runs |-> <<>>]
  /\ batch = [r \in Runs |-> Null]
  /\ tracked = [r \in Runs |-> {}]
  /\ began = [r \in Runs |-> 1]
  /\ excused = [r \in Runs |-> {}]

Move(r, k, l) == pc[r] = k /\ pc' = [pc EXCEPT ![r] = l]

-----------------------------------------------------------------------------
(* The loop.                                                                *)

Begin(r, seq, set) ==
  /\ Move(r, "idle", "loop")
  /\ todo' = [todo EXCEPT ![r] = seq]
  /\ tracked' = [tracked EXCEPT ![r] = set]
  /\ began' = [began EXCEPT ![r] = quote]
  /\ excused' = [excused EXCEPT ![r] = {}]
  /\ UNCHANGED <<stocks, prices, quote, batch>>

\* ListAllSymbols, and the index before its result; no run without symbols.
ListAll(r) == stocks # {} /\ Begin(r, <<Index>> \o SetToSeq(stocks), stocks)

\* POST /import/fetch-prices/:symbol, of any symbol.
FetchOne(r) == \E s \in Symbols : Begin(r, <<s>>, {s} \cap stocks)

Current(r) == Head(todo[r])

\* Mutation: a failure ends the loop, return for continue.
Bug_Continue(r) == todo' = [todo EXCEPT ![r] = <<>>]

Continue(r) == todo' = [todo EXCEPT ![r] = Tail(@)]

Skip(r) == Continue(r) /\ excused' = [excused EXCEPT ![r] = @ \cup {Current(r)}]

\* FetchPrices fails, or has no row with a positive close price.
NoData(r) == pc[r] = "loop" /\ Skip(r) /\ UNCHANGED <<pc, batch>>

\* FetchPrices: Yahoo's row of today; the open price may be missing.
Data(r) ==
  /\ Move(r, "loop", "save")
  /\ \E o \in {quote, Null} : batch' = [batch EXCEPT ![r] = [close |-> quote, open |-> o]]
  /\ UNCHANGED <<todo, excused>>

Fetch(r) ==
  /\ todo[r] # <<>>
  /\ NoData(r) \/ Data(r)
  /\ UNCHANGED <<stocks, prices, quote, tracked, began>>

\* Mutation: an optional column is overwritten with NULL.
Bug_Merged(old, new) == new

\* ON CONFLICT (symbol, date) DO UPDATE, with COALESCE for optional columns.
Merged(old, new) ==
  IF old = Null \/ new.open # Null THEN new ELSE [new EXCEPT !.open = old.open]

Upsert(s, row) == prices' = [prices EXCEPT ![s] = Merged(@, row)]

\* The runs that did not write are not answerable for the price of s any more.
StoredBy(own, s) ==
  excused' = [r \in Runs |-> CASE r \in own -> excused[r] \ {s}
                               [] r \notin own /\ pc[r] = "idle" -> excused[r]
                               [] OTHER -> excused[r] \cup {s}]

\* UpsertBatch: stored, rejected by the foreign key, or lost to the database.
Save(r) ==
  /\ Move(r, "save", "loop")
  /\ \/ /\ Current(r) \in stocks
        /\ Upsert(Current(r), batch[r]) /\ StoredBy({r}, Current(r)) /\ Continue(r)
     \/ Current(r) \notin stocks /\ Continue(r) /\ UNCHANGED <<prices, excused>>
     \/ Skip(r) /\ UNCHANGED prices
  /\ batch' = [batch EXCEPT ![r] = Null]
  /\ UNCHANGED <<stocks, quote, tracked, began>>

End(r) ==
  /\ todo[r] = <<>> /\ Move(r, "loop", "done")
  /\ UNCHANGED <<stocks, prices, quote, todo, batch, tracked, began, excused>>

\* The next firing, or the next request.
Again(r) ==
  /\ Move(r, "done", "idle")
  /\ UNCHANGED <<stocks, prices, quote, todo, batch, tracked, began, excused>>

-----------------------------------------------------------------------------
(* The rest of the system.                                                  *)

\* ImportPrices of one row: Bind leaves a close price that is missing at 0.
Import ==
  /\ \E s \in stocks, c \in Imported, o \in {1, Null} :
       Upsert(s, [close |-> c, open |-> o]) /\ StoredBy({}, s)
  /\ UNCHANGED <<stocks, quote, pc, todo, batch, tracked, began>>

\* Ingest adds the stock an article names.
AddStock ==
  /\ \E s \in Symbols \ stocks : stocks' = stocks \cup {s}
  /\ UNCHANGED <<prices, quote, run>>

\* Trading goes on.
Trade == quote < MaxQuote /\ quote' = quote + 1 /\ UNCHANGED <<stocks, prices, run>>

\* The server stops and is started again; the tables stay.
Crash ==
  /\ pc' = [r \in Runs |-> "idle"]
  /\ todo' = [r \in Runs |-> <<>>] /\ batch' = [r \in Runs |-> Null]
  /\ UNCHANGED <<stocks, prices, quote, tracked, began, excused>>

LoopStep(r) == Fetch(r) \/ Save(r) \/ End(r)

Next == \/ \E r \in Runs : ListAll(r) \/ FetchOne(r) \/ LoopStep(r) \/ Again(r)
        \/ Import \/ AddStock \/ Trade \/ Crash

Spec == Init /\ [][Next]_vars

-----------------------------------------------------------------------------
(* Properties.                                                              *)

\* Once the open price of a day is known it stays known, whoever writes the row
\* next and whatever he leaves out (stock_price_repo.go, lines 31-36).
OptionalKept ==
  [][\A s \in Symbols : prices[s] # Null /\ prices[s].open # Null => prices'[s].open # Null]_vars

\* "Fetches latest prices from Yahoo Finance for all tracked stocks"
\* (import_handler.go:206): when a run ends, every stock it listed has a price at
\* least as recent as the run, unless it failed for that stock, or another run or
\* an import wrote that stock after it (the last writer wins, however old its
\* price).  The failure of one symbol, the index above all, costs no other its price.
FreshAtEnd ==
  \A r \in Runs : pc[r] = "done" =>
    \A s \in tracked[r] \ excused[r] : prices[s] # Null /\ prices[s].close >= began[r]

=============================================================================
