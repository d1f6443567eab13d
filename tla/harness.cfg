\* The integration script with slow and dying servers.
SPECIFICATION FairSpec
CHECK_DEADLOCK FALSE
CONSTANTS
  MockPolls = 3
  WorkerPolls = 3
  Tests = 3
INVARIANTS
  GreenIffTested
  NothingLeft
  SuiteAfterBoot
PROPERTIES
  HarnessEnds
