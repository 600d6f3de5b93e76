CONSTANTS
  Kinds = {"CGLA"}
  Errors = TRUE
  MaxReports = 1
  MaxFails = 2
SPECIFICATION FairSpec
INVARIANT LagIsBounded
PROPERTIES TakesOwnAnswer ReadEnds
CHECK_DEADLOCK FALSE
