SPECIFICATION Spec
CONSTANTS
  o1 = o1 s1 = s1 s2 = s2
  Ids <- OneId
  Savers <- TwoSavers
  IoErrors = TRUE
  MaxGeneration = 3
  MaxSaves = 2
  MaxRecovers = 2
CHECK_DEADLOCK FALSE
SYMMETRY SaverSymmetry
INVARIANTS
  RecoveredWasSaved
