------------------------------ MODULE Indicators ------------------------------
(***************************************************************************)
(* pkg/technical/indicators.go: the indicators of a series of closing      *)
(* prices, oldest first, and the signal made of them.  The series grows    *)
(* day by day; every indicator is a function of it.  Prices are multiples  *)
(* of Unit, which is divisible by whatever the averages of the instance    *)
(* divide by, so that the arithmetic is exact.  Operators with a period    *)
(* are meant for series of at least that length: the code returns nil for  *)
(* a shorter one, and the guards below stand where it tests for nil.       *)
(***************************************************************************)
EXTENDS Integers, Sequences, FiniteSets, SequencesExt, FiniteSetsExt, Functions

CONSTANTS
  Prices,                 \* closing prices, in multiples of Unit
  Unit,
  MaxDays,                \* bound on the length of the series
  Short, Long,            \* moving averages: 20 and 50 in the code
  RSIPeriod,              \* 14
  Fast, Slow, SigPeriod   \* MACD: 12, 26, 9

ASSUME IndicatorAssumption ==
  /\ Prices \subseteq Nat /\ Unit \in Nat \ {0}
  /\ {MaxDays, Short, Long, RSIPeriod, Fast, Slow, SigPeriod} \subseteq Nat \ {0}
  /\ Fast <= Slow /\ Short <= Long

VARIABLE prices

Day == Len(prices) < MaxDays /\ \E p \in Prices : prices' = Append(prices, p * Unit)

Total(s) == SumFunction(s)

-----------------------------------------------------------------------------
(* Averages.                                                                *)

CalcSMA(s, period) == Total(SubSeq(s, Len(s) - period + 1, Len(s))) \div period

Seed(s, period) == Total(SubSeq(s, 1, period)) \div period

\* The running values of the average, from the period on, and the last of them.
EMA(s, period) ==
  LET ema[i \in period .. Len(s)] ==
        IF i = period THEN Seed(s, period)
        ELSE ema[i - 1] + ((s[i] - ema[i - 1]) * 2) \div (period + 1)
  IN  ema

CalcEMA(s, period) == EMA(s, period)[Len(s)]

-----------------------------------------------------------------------------
(* RSI: the average gain and loss.                                          *)

Gain(change) == IF change > 0 THEN change ELSE 0

Loss(change) == IF change > 0 THEN 0 ELSE -change

Changes(s) == [i \in 1 .. Len(s) - 1 |-> s[i + 1] - s[i]]

\* Wilder's smoothing of a series: the mean of the first values, then a running one.
Averages(v) ==
  LET avg[i \in RSIPeriod .. Len(v)] ==
        IF i = RSIPeriod THEN Seed(v, RSIPeriod)
        ELSE (avg[i - 1] * (RSIPeriod - 1) + v[i]) \div RSIPeriod
  IN  avg

Smoothed(v) == Averages(v)[Len(v)]

Gains(s)  == [i \in 1 .. Len(s) - 1 |-> Gain(Changes(s)[i])]
Losses(s) == [i \in 1 .. Len(s) - 1 |-> Loss(Changes(s)[i])]

AvgGain(s) == Smoothed(Gains(s))
AvgLoss(s) == Smoothed(Losses(s))
HasRSI(s)  == Len(s) >= RSIPeriod + 1

\* Mutation: no case of its own for a loss of zero.
Bug_CalcRSI(s) == <<100 * AvgGain(s), AvgGain(s) + AvgLoss(s)>>

\* The RSI as a fraction: 100 - 100 / (1 + gain / loss), or 100 without a loss.
CalcRSI(s) ==
  IF AvgLoss(s) = 0 THEN <<100, 1>> ELSE <<100 * AvgGain(s), AvgGain(s) + AvgLoss(s)>>

Under(fraction, v) == fraction[1] < v * fraction[2]
Over(fraction, v)  == fraction[1] > v * fraction[2]

RSIBelow(s, v) == Under(CalcRSI(s), v)
RSIAbove(s, v) == Over(CalcRSI(s), v)

-----------------------------------------------------------------------------
(* MACD.                                                                    *)

\* Mutation: the slow average less the fast one.
Bug_MACD(s) == CalcEMA(s, Slow) - CalcEMA(s, Fast)

MACD(s)    == CalcEMA(s, Fast) - CalcEMA(s, Slow)
HasMACD(s) == Len(s) >= Slow

MACDValues(s) == [i \in 1 .. Len(s) - Slow + 1 |-> MACD(SubSeq(s, 1, i + Slow - 1))]

HasHist(s)    == HasMACD(s) /\ Len(MACDValues(s)) >= SigPeriod
SignalLine(s) == CalcEMA(MACDValues(s), SigPeriod)
Hist(s)       == MACD(s) - SignalLine(s)

-----------------------------------------------------------------------------
(* The signal.                                                              *)

One(b) == IF b THEN 1 ELSE 0

\* Mutation: two rupiah above the average, not two percent.
Bug_AboveMA(s) == Len(s) >= Short /\ Last(s) > 0 /\ Last(s) > CalcSMA(s, Short) + 2 * Unit

AboveMA(s) == Len(s) >= Short /\ Last(s) > 0 /\ 100 * Last(s) > 102 * CalcSMA(s, Short)
BelowMA(s) == Len(s) >= Short /\ Last(s) > 0 /\ 100 * Last(s) < 98 * CalcSMA(s, Short)
Cross(s)   == Len(s) >= Long /\ CalcSMA(s, Short) > CalcSMA(s, Long)
NoCross(s) == Len(s) >= Long /\ ~Cross(s)

BuyScore(s) ==
  One(HasRSI(s) /\ RSIBelow(s, 30)) + One(HasRSI(s) /\ RSIBelow(s, 40))
    + One(AboveMA(s)) + One(Cross(s)) + One(HasHist(s) /\ Hist(s) > 0)

SellScore(s) ==
  One(HasRSI(s) /\ RSIAbove(s, 80)) + One(HasRSI(s) /\ RSIAbove(s, 70))
    + One(BelowMA(s)) + One(NoCross(s)) + One(HasHist(s) /\ Hist(s) <= 0)

TechSignal(s) ==
  CASE BuyScore(s) >= 3 /\ BuyScore(s) > SellScore(s) -> "BUY"
    [] SellScore(s) >= 3 /\ SellScore(s) > BuyScore(s) -> "SELL"
    [] OTHER -> "HOLD"

-----------------------------------------------------------------------------
(* What Unit is for: no average of any series leaves a remainder.           *)

Closing == {p * Unit : p \in Prices}
Series  == UNION {[1 .. n -> Closing] : n \in 1 .. MaxDays}

EvenSeed(s, period) == Total(SubSeq(s, 1, period)) % period = 0

EvenSMA(s, period) ==
  Len(s) >= period => Total(SubSeq(s, Len(s) - period + 1, Len(s))) % period = 0

EvenEMA(s, period) ==
  Len(s) >= period =>
    /\ EvenSeed(s, period)
    /\ \A i \in period + 1 .. Len(s) : ((s[i] - EMA(s, period)[i - 1]) * 2) % (period + 1) = 0

EvenSmoothed(v) ==
  Len(v) >= RSIPeriod =>
    /\ EvenSeed(v, RSIPeriod)
    /\ \A i \in RSIPeriod + 1 .. Len(v) : (Averages(v)[i - 1] * (RSIPeriod - 1) + v[i]) % RSIPeriod = 0

ASSUME UnitAssumption ==
  \A s \in Series :
    /\ EvenSMA(s, Short) /\ EvenSMA(s, Long) /\ EvenEMA(s, Fast) /\ EvenEMA(s, Slow)
    /\ EvenSmoothed(Gains(s)) /\ EvenSmoothed(Losses(s))
    /\ HasHist(s) => EvenEMA(MACDValues(s), SigPeriod)

-----------------------------------------------------------------------------
(* Properties.                                                              *)

With(p) == Append(Front(prices), p * Unit)

Rising == \A i \in 1 .. Len(prices) - 1 : prices[i] <= prices[i + 1]

\* The RSI is a number between 0 and 100, whatever the prices: neither average is
\* negative and nothing is divided by zero, though a price that has not moved has
\* no loss and no gain.  It is 100 of a series that never fell, and it rises with
\* the last price: a bound that it exceeds, or that it stays under, is one that
\* the RSI of a higher, or a lower, price does (lines 53-94).
RSIRises ==
  HasRSI(prices) =>
    /\ \A p \in Prices :
         LET rsi == CalcRSI(With(p))
         IN  /\ AvgGain(With(p)) >= 0 /\ AvgLoss(With(p)) >= 0
             /\ 0 < rsi[2] /\ ~Under(rsi, 0) /\ ~Over(rsi, 100)
    /\ Rising => ~RSIBelow(prices, 100)
    /\ \A a, b \in Prices : a < b =>
         LET lower  == CalcRSI(With(a))
             higher == CalcRSI(With(b))
         IN  \A v \in 0 .. 100 : /\ Over(lower, v) => Over(higher, v)
                                /\ Under(higher, v) => Under(lower, v)

\* "For steady uptrend, MACD should be positive" (indicators_test.go:76), and
\* never negative in any series that does not fall.
UptrendMACD == HasMACD(prices) /\ Rising => MACD(prices) >= 0

\* A split or a consolidation of the shares, which multiplies all prices, changes
\* no signal: every threshold is relative to the prices (lines 165-215).
SplitKeepsSignal == TechSignal([d \in DOMAIN prices |-> 3 * prices[d]]) = TechSignal(prices)

=============================================================================
