\* Two workers, two feeds of up to three items cut at two, channels of two places.
CONSTANTS
  Worker = {w1, w2}
  PerWorker = 1
  NumSources = 2
  MaxFeed = 3
  MaxItems = 2
  h1 = h1
  h2 = h2
  Hash = {h1, h2}
  HashOf <- MCHashOf
  CacheEnabled = TRUE
SPECIFICATION FairSpec
INVARIANTS NoSendAfterClose OneResultPerJob MarkedIsReturned
PROPERTIES ImplementsRun RunTerminates
CHECK_DEADLOCK FALSE
