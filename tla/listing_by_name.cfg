CONSTANTS
  Nil = nil
  MaxId = 2
  FirstPages = {1}
  Limits = {2}
SPECIFICATION Spec
INVARIANT FailsOnlyByFault
CHECK_DEADLOCK FALSE
