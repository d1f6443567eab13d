\* APIs that keep their documentation.
SPECIFICATION FairSpec
CHECK_DEADLOCK FALSE
CONSTANTS
  PageLimit <- MCPageLimit
  Counts <- MCCounts
  PageSizes <- MCPageSizes
  DefaultPageSize = 2
  Works <- MCWorks
  Corpora <- MCCorpora
  Quirks <- HonestQuirks
  MaxDrift = 0
INVARIANTS
  TypeOK
  CursorTracksRows
  InOrderPrefix
  CompleteOnFinish
PROPERTIES
  KeepsPromise
