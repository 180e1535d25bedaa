----------------------------- MODULE SignalFlow -----------------------------
(***************************************************************************)
(* The signal of a stock as GetSignals of usecase/signal_usecase.go makes  *)
(* it of the news and the prices that are stored: the aggregate of         *)
(* repository/postgres/signal_repo.go, Indicators on the prices, Scoring   *)
(* on both.  A price is added each day; the news are quantified over.      *)
(***************************************************************************)
EXTENDS Indicators, Scoring

CONSTANTS
  MinDays,   \* prices that enrichWithTechnicals asks for: 15, RSIPeriod + 1
  Window,    \* prices that ListBySymbol returns at most: 90
  Rupiah     \* rupiah in one Unit

ASSUME SignalAssumption == {MinDays, Window, Rupiah} \subseteq Nat \ {0} /\ MinDays >= 2

SignalInit == prices = <<>>
SignalSpec == SignalInit /\ [][Day]_prices

-----------------------------------------------------------------------------
(* GetStockSignals: the decayed mean of the scores of the articles, and     *)
(* which label more of them have: 1 bullish, -1 bearish, 0 neither.         *)

RepoSignal(average, majority) ==
  CASE 100 * average >= 20 * Whole /\ majority = 1 -> "BUY"
    [] 100 * average <= -20 * Whole /\ majority = -1 -> "SELL"
    [] OTHER -> "HOLD"

-----------------------------------------------------------------------------
(* enrichWithTechnicals.                                                    *)

Recent == IF Len(prices) > Window THEN SubSeq(prices, Len(prices) - Window + 1, Len(prices)) ELSE prices

OrNull(given, v) == IF given THEN v ELSE Null

\* Rounded up, which no threshold on the RSI notices.
RoundedRSI(s) == -((-CalcRSI(s)[1]) \div CalcRSI(s)[2])

\* An average of zero is passed as none.
HasMA(s, period) == Len(s) >= period /\ CalcSMA(s, period) > 0

Deviation(s, period) == (Whole * (Last(s) - CalcSMA(s, period))) \div CalcSMA(s, period)

\* Percent of the day before, 0 after a price of zero; prices are multiples of Unit.
Change(s) ==
  LET last == s[Len(s)] \div Unit
      prev == s[Len(s) - 1] \div Unit
  IN  IF prev > 0 THEN (100 * Whole * (last - prev)) \div prev ELSE 0

\* The volume ratio and the foreign flow are never passed.
Technicals(s) ==
  [sentiment |-> 0, tech |-> TRUE,
   rsi |-> OrNull(HasRSI(s), RoundedRSI(s)),
   ma20 |-> OrNull(HasMA(s, Short), Deviation(s, Short)),
   ma50 |-> OrNull(HasMA(s, Long), Deviation(s, Long)),
   hist |-> OrNull(HasHist(s), Rupiah * ((Whole * Hist(s)) \div Unit)),
   change |-> Change(s), volume |-> Null, flow |-> Null]

Enough == Len(Recent) >= MinDays

Input(t, average) == [t EXCEPT !.sentiment = average]

\* Without enough prices the sentiment is the score and the signal stays.
Published(average, majority) ==
  IF Enough
    THEN LET t == Technicals(Recent)
         IN  [score |-> CompositeScore(Input(t, average)), signal |-> CompositeSignal(Input(t, average))]
    ELSE [score |-> 100 * average, signal |-> RepoSignal(average, majority)]

-----------------------------------------------------------------------------
(* Properties.                                                              *)

\* Better news lowers neither the published score nor the signal, with prices or
\* without; and whatever the prices, a better trend, MACD or flow, a lower RSI or,
\* while no volume is known, a greater rise is rated no worse, on either side of
\* the thresholds of determineSignal (scoring.go 161-179, signal_repo.go 98-105).
BetterNewsNoWorse ==
  /\ \A m \in {-1, 0, 1} :
       LET rated == [a \in Value.sentiment |-> LET p == Published(a, m) IN <<p.score, Rank[p.signal]>>]
       IN  \A a, b \in Value.sentiment : a < b => NoWorse(rated[a], rated[b])
  /\ Enough => LET t == Technicals(Recent)
               IN  \A a \in Value.sentiment :
                     /\ \A f \in {"ma20", "ma50", "hist", "change", "flow"} : Helps(Input(t, a), f)
                     /\ Harms(Input(t, a), "rsi")

\* A signal that follows from the composite score rests on some factor: the
\* confidence published with it is not zero (scoring.go 161-206).
SignalsAreBacked ==
  Enough => LET t == Technicals(Recent)
            IN  \A a \in Value.sentiment :
                  LET score == CompositeScore(Input(t, a))
                  IN  score >= 25 * Whole \/ score <= -25 * Whole => Agreeing(Input(t, a)) # {}
=============================================================================
