\* The middle one of three articles is being saved, the others are there, of which the newest may be
\* refused for ever; a client that reprocesses two at a time, one crash.
CONSTANTS
  i1 = i1
  r1 = r1
  bbca = bbca
  tlkm = tlkm
  ihsg = ihsg
  GivenTo <- Second
  Symbol = {bbca, tlkm, ihsg}
  Blacklisted = {ihsg}
  Ingests = {i1}
  Reprocesses = {r1}
  NumArticles = 3
  HashOf <- Distinct
  Analyses <- IndexFirst
  Limit = 2
  Stuck = {3}
  MaxCrashes = 1
SPECIFICATION FairSpec
INVARIANTS TagsOnlyOnAnalysed BlacklistKept TagsComplete
PROPERTIES SavedIsAnalysed
