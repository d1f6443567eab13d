\* JSON of an unforeseen shape.
SPECIFICATION Spec
CHECK_DEADLOCK FALSE
CONSTANTS
  PageLimit <- MCPageLimit
  Counts <- MCCounts
  PageSizes <- MCPageSizes
  DefaultPageSize = 2
  Works <- MCWorks
  Corpora <- MCCorpora
  Quirks <- MalformedQuirks
  MaxDrift = 0
INVARIANTS
  FailuresTranslated
