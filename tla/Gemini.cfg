\* Two callers, two models, none to four keys.
SPECIFICATION GeminiSpec
CONSTANTS
  c1 = c1
  c2 = c2
  Callers = {c1, c2}
  Models <- TwoModels
  KeyCounts = {0, 1, 2, 3, 4}
SYMMETRY Symmetry
INVARIANTS ActiveModelWorks ExhaustedMeansAsked HealthyPairFound
