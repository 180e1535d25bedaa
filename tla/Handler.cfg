\* Two trigger requests, a reprocess request, a firing of the cron job, one cancel.
CONSTANTS
  t1 = t1
  t2 = t2
  t3 = t3
  r1 = r1
  c1 = c1
  None = None
  Triggers = {t1, t2}
  Reprocesses = {r1}
  Crons = {c1}
  MaxBatch = 2
  MaxCancels = 1
SPECIFICATION FairSpec
INVARIANTS SlotIsLive RunsBoundedByCancels CancelSeen 
CHECK_DEADLOCK FALSE
PROPERTIES RunsEnd
