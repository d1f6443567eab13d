\* Two scans, lost answers and a restarted worker.
SPECIFICATION FairSpec
CHECK_DEADLOCK FALSE
CONSTANTS
  PageLimit <- MCPageLimit
  Works = {w1, w2, m1, m2, m3}
  MockList <- MCMockList
  Scans = {s1, s2}
  Calls <- MCCalls
  Environments <- MCEnvironments
  DefaultPageSize = 2
  LiveList <- MCLiveList
  LiveQuirks <- MCLiveQuirks
  MaxFaults = 2
  w1 = w1
  w2 = w2
  m1 = m1
  m2 = m2
  m3 = m3
INVARIANTS
  TypeOK
  TokenTracksRows
  DiscoveryHonest
  MockIsAnApi
PROPERTIES
  IndependentStreams
  EveryScanEnds
