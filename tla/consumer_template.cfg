CONSTANTS
  MaxMsg = 3
  Queues = {known, unknown}
  Registered = {known}
  Processors = {p1, p2}
  MaxFaults = 1
SPECIFICATION FairSpec
INVARIANTS TypeOK LossHasCause RepeatHasCause
PROPERTY EveryMessageReached
CHECK_DEADLOCK FALSE
