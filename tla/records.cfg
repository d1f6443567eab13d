\* Pages of up to two records, documented and not.
SPECIFICATION Spec
CHECK_DEADLOCK FALSE
CONSTANTS
  None = None
  Junk = Junk
  Huge = Huge
  Pages <- MCPages
  Projections <- MCProjections
  Rooms = {1, 2}
INVARIANTS
  TypeOK
  PageWhole
  DocumentedAccepted
  DatesAgree
  TextsRestored
  AuthorsInOrder
  DoiShared
  MissingIsNull
