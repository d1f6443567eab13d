\* APIs that answer anything.
SPECIFICATION FairSpec
CHECK_DEADLOCK FALSE
CONSTANTS
  PageLimit <- MCPageLimit
  Counts <- MCCounts
  PageSizes <- MCPageSizes
  DefaultPageSize = 2
  Works <- MCWorks
  Corpora <- MCCorpora
  Quirks <- WildQuirks
  MaxDrift = 0
INVARIANTS
  CountBudget
  RequestBudget
PROPERTIES
  Terminates
