\* Cron and one trigger, two pages, two retries of which the second is capped.
SPECIFICATION FairSpec
CONSTANTS
  cron = cron
  trigger = trigger
  u1 = u1
  u2 = u2
  Callers = {cron, trigger}
  Cancellable = {trigger}
  URLs = {u1, u2}
  MaxRetries = 2
  Base = 2
  MaxBackoff = 3
  MaxDuration = 1000
INVARIANTS GivesUpLate MarkedIsAccounted
PROPERTIES OfferedIsSaved
