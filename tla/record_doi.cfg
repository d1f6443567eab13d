\* The promise of the docstring of clean_doi().
SPECIFICATION Spec
CHECK_DEADLOCK FALSE
CONSTANTS
  None = None
  Junk = Junk
  Huge = Huge
  Pages <- MCPages
  Projections <- MCProjections
  Rooms = {1, 2}
INVARIANTS
  AnyPrefixStripped
