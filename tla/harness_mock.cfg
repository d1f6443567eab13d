\* What is left of the mock server.
SPECIFICATION FairSpec
CHECK_DEADLOCK FALSE
CONSTANTS
  MockPolls = 3
  WorkerPolls = 3
  Tests = 1
INVARIANTS
  MockStopped
