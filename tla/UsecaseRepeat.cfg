\* One article whose analysis may name a company twice.
CONSTANTS
  i1 = i1
  r1 = r1
  bbca = bbca
  tlkm = tlkm
  ihsg = ihsg
  GivenTo <- First
  Symbol = {bbca, tlkm, ihsg}
  Blacklisted = {ihsg}
  Ingests = {i1}
  Reprocesses = {r1}
  NumArticles = 1
  HashOf <- Distinct
  Analyses <- Repeated
  Limit = 2
  Stuck = {}
  MaxCrashes = 0
SPECIFICATION Spec
INVARIANTS RepeatsHandled
