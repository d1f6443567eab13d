\* An offset-paged list that changes during the scan.
SPECIFICATION Spec
CHECK_DEADLOCK FALSE
CONSTANTS
  PageLimit <- MCPageLimit
  Counts <- MCCounts
  PageSizes <- MCPageSizes
  DefaultPageSize = 2
  Works <- MCDriftWorks
  Corpora <- MCDriftCorpora
  Quirks <- DriftQuirks
  MaxDrift = 2
INVARIANTS
  RepeatsBounded
  MissesBounded
