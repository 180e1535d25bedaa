\* Three trigger requests and one cancel.
CONSTANTS
  t1 = t1
  t2 = t2
  t3 = t3
  r1 = r1
  c1 = c1
  None = None
  Triggers = {t1, t2, t3}
  Reprocesses = {}
  Crons = {}
  MaxBatch = 1
  MaxCancels = 1
SPECIFICATION Spec
INVARIANTS AtMostOneRun
CHECK_DEADLOCK FALSE
