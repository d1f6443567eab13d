\* Only what an HTTP server can answer.
SPECIFICATION FairSpec
CHECK_DEADLOCK FALSE
CONSTANTS
  Retries = 3
  Backoff <- MCBackoff
  MaxSleep = 60
  Outcomes <- HttpOutcomes
  RetryAfters <- MCRetryAfters
INVARIANTS
  RaisesProviderError
