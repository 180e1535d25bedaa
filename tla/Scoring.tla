------------------------------- MODULE Scoring -------------------------------
(***************************************************************************)
(* pkg/quant/scoring.go: the composite score of a stock, and the signal    *)
(* and confidence made of it, as functions of the input of                 *)
(* ComputeComposite, whose tech says whether TechSignal is given.  Numbers *)
(* are counted in units of 1/Whole; a ratio to a moving average is given   *)
(* by what it differs from 1, the volume ratio by its logarithm.           *)
(***************************************************************************)
EXTENDS Integers, FiniteSets, Functions

CONSTANTS
  Null,        \* a nil pointer
  Value        \* the values of each field to compare

Whole == 240

ASSUME ScoringAssumption ==
  /\ Null \notin Int
  /\ \A f \in {"ma20", "ma50", "hist", "volume", "flow"} : Value[f] \subseteq Int \cup {Null}
  /\ Value.sentiment \cup Value.change \subseteq Int /\ Value.rsi \subseteq 0 .. 100 \cup {Null}

Clamp(v, low, high) == IF v < low THEN low ELSE IF v > high THEN high ELSE v
Clip(v) == Clamp(v, -Whole, Whole)

\* The mean of the scores that are there, 0 of none: of <<given, score>> pairs.
Present(parts) == {i \in DOMAIN parts : parts[i][1]}
Mean(parts) ==
  IF Present(parts) = {} THEN 0
  ELSE Clip(SumFunction([i \in Present(parts) |-> parts[i][2]]) \div Cardinality(Present(parts)))

Given(v, score) == <<v # Null, score>>

-----------------------------------------------------------------------------
(* The factors.                                                             *)

\* Mutation: a high RSI counts as bullish.
Bug_RSIScore(i) == IF i.rsi = Null THEN 0 ELSE ((i.rsi - 50) * Whole) \div 50

RSIScore(i) == IF i.rsi = Null THEN 0 ELSE ((50 - i.rsi) * Whole) \div 50

MAScore(v, weight) == IF v = Null THEN 0 ELSE Clip(v * weight)
HistScore(i)       == IF i.hist = Null THEN 0 ELSE Clip(i.hist \div 5)

TechnicalFactor(i) ==
  IF ~i.tech /\ i.rsi = Null THEN 0
  ELSE Mean(<<Given(i.rsi, RSIScore(i)), Given(i.ma20, MAScore(i.ma20, 10)),
              Given(i.ma50, MAScore(i.ma50, 8)), Given(i.hist, HistScore(i))>>)

VolumeScore(i) ==
  IF i.volume = Null THEN 0
  ELSE Clip(IF i.change >= 0 THEN i.volume ELSE IF i.volume > 0 THEN -i.volume ELSE i.volume)

MomentumFactor(i) ==
  Mean(<< <<i.change # 0, Clip(i.change \div 5)>>, Given(i.volume, VolumeScore(i)) >>)

FlowFactor(i) == IF i.flow = Null THEN 0 ELSE Clip(i.flow)

Factors(i) == <<Clip(i.sentiment), TechnicalFactor(i), MomentumFactor(i), FlowFactor(i)>>

-----------------------------------------------------------------------------
(* The result.                                                              *)

Weights == <<40, 30, 15, 15>>

\* In units of 1 / (100 * Whole).
CompositeScore(i) ==
  LET f == Factors(i)
  IN  Clamp(SumFunction([n \in 1 .. 4 |-> Weights[n] * f[n]]), -100 * Whole, 100 * Whole)

Overbought(i) == i.rsi # Null /\ i.rsi > 75

CompositeSignal(i) ==
  LET score == CompositeScore(i)
  IN  CASE score >= 25 * Whole -> IF Overbought(i) THEN "HOLD" ELSE "BUY"
        [] score <= -25 * Whole -> "SELL"
        [] OTHER -> IF i.rsi # Null /\ i.rsi > 80 /\ Clip(i.sentiment) < 0 THEN "SELL" ELSE "HOLD"

\* Mutation: negative factors never agree.
Bug_Agrees(f, score) == f > 0 /\ score > 0

Agrees(f, score) == (f > 0 /\ score > 0) \/ (f < 0 /\ score < 0)

\* Confidence is Agreeing / Counted, 0 if nothing counts.
Counted(i)  == {n \in 1 .. 4 : Factors(i)[n] # 0}
Agreeing(i) == LET score == CompositeScore(i)
               IN  {n \in Counted(i) : Agrees(Factors(i)[n], score)}

-----------------------------------------------------------------------------
(* Comparing inputs.                                                        *)

Rank == [SELL |-> 1, HOLD |-> 2, BUY |-> 3]

Rated(i) == <<CompositeScore(i), Rank[CompositeSignal(i)]>>

\* Of the ratings of two inputs, the second is no worse in either part.
NoWorse(r, s) == r[1] <= s[1] /\ r[2] <= s[2]

\* With a greater value of field f the input i is rated no worse.
Helps(i, f) ==
  LET V     == Value[f] \ {Null}
      rated == [v \in V |-> Rated([i EXCEPT ![f] = v])]
  IN  \A v, w \in V : v < w => NoWorse(rated[v], rated[w])

\* With a smaller one.
Harms(i, f) ==
  LET V     == Value[f] \ {Null}
      rated == [v \in V |-> Rated([i EXCEPT ![f] = v])]
  IN  \A v, w \in V : v < w => NoWorse(rated[w], rated[v])
=============================================================================
