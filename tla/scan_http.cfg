\* Ticks as runs of get(), with one retry.
SPECIFICATION FairHttpSpec
CHECK_DEADLOCK FALSE
CONSTANTS
  PageLimit <- MCPageLimit
  Counts <- FewCounts
  PageSizes <- FewPageSizes
  DefaultPageSize = 2
  Works <- FewWorks
  Corpora <- FewCorpora
  Quirks <- CallQuirks
  MaxDrift = 1
  Retries = 1
  Backoff <- OneRetryBackoff
  MaxSleep = 4
  Outcomes <- AllOutcomes
  RetryAfters <- FewRetryAfters
INVARIANTS
  CallTypeOK
  NetworkBudget
  WaitBudget
  EndingExplained
PROPERTIES
  CallsAreTicks
