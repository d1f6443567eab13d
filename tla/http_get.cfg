\* Every way an attempt may end, every Retry-After header.
SPECIFICATION FairSpec
CHECK_DEADLOCK FALSE
CONSTANTS
  Retries = 3
  Backoff <- MCBackoff
  MaxSleep = 60
  Outcomes <- OutcomeKinds
  RetryAfters <- MCRetryAfters
INVARIANTS
  TypeOK
  AttemptsBounded
  OnlyTransientRetried
  EndsForItsReason
  BackoffBounded
  RetriesSpaced
PROPERTIES
  GetEnds
