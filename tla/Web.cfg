\* Two requests at a time, bursts of two, stale after four ticks; answers of one
\* change of the tables, cached for two ticks.
SPECIFICATION FairWebSpec
CONSTANTS
  q1 = q1
  q2 = q2
  q3 = q3
  Requests = {q1, q2}
  Rate = 1
  Burst = 2
  Stale = 4
  None = None
  Failure = Failure
  TTL = 2
  HandlerLimit = 1
  SetLimit = 1
  MaxVersion = 1
INVARIANTS ReapingIsInvisible AtMostTwice HitsAreRecent
PROPERTIES EntriesGo StaleDiesOut
