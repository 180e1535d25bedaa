\* All series of up to six prices, the last five of them read; the news change at will.
SPECIFICATION SignalSpec
CONSTANTS
  Prices = {0, 3, 4, 7}
  Unit = 34992
  Rupiah = 50
  MaxDays = 6
  Window = 5
  MinDays = 4
  Short = 2
  Long = 4
  RSIPeriod = 3
  Fast = 2
  Slow = 3
  SigPeriod = 2
  Null = Null
  Value <- MCValue
INVARIANTS RSIRises UptrendMACD SplitKeepsSignal SignalsAreBacked BetterNewsNoWorse
CHECK_DEADLOCK FALSE
