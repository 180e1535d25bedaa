\* A run of two events and one of one event, two connections with room for one event.
SPECIFICATION FairSpec
CONSTANTS
  r1 = r1
  r2 = r2
  k1 = k1
  k2 = k2
  Runs = {r1, r2}
  Conns = {k1, k2}
  Script <- StartTick
  Cap = 1
  None = None
INVARIANTS NoSendOnClosed InOrder Accounted
CHECK_DEADLOCK FALSE
PROPERTIES RunsGoOn LeaversGo
