CONSTANTS
  Nil = nil
  MaxId = 4
  FirstPages = {0, 1, 2}
  Limits = {0, 1, 2, 3, 101}
SPECIFICATION Spec
INVARIANTS TypeOK NothingHidden NothingRepeated PagesMakeTheList PageAgreesWithTotals
CHECK_DEADLOCK FALSE
