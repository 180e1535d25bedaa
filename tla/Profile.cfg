\* Two requests, two versions of the crumb.
SPECIFICATION FairProfileSpec
CONSTANTS
  f1 = f1
  f2 = f2
  Callers = {f1, f2}
  None = None
  MaxVersion = 2
INVARIANTS SecondCrumbIsNewer ProfileKept
PROPERTIES CallsReturn
