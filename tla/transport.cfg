CONSTANTS
  Nil = nil
  None = none
  Absent = absent
  Calls = {c1}
  Pages = {0, 1, 2}
  Limits = {0, 1, 100, 101}
SPECIFICATION FairSpec
INVARIANTS TypeOK RefusedMeansUntouched InvalidHasCause ToldAsReturned OnlyValidServed
PROPERTIES EndsOnce EveryCallEnds
