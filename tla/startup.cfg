CONSTANTS
  Servers = {s1, s2}
  Consumers = {q1}
  Crons = {k1}
  MaxFaults = 2
  None = none
SPECIFICATION FairSpec
INVARIANTS TypeOK OneService ServingMeansIndexed
PROPERTY EveryServerServes
CHECK_DEADLOCK FALSE
