CONSTANTS
  Checks = {c1, c2}
  Brokers = {local, other}
  Local = local
  None = none
  Deadline = 2
SPECIFICATION FairSpec
INVARIANTS TypeOK NoProducerLeaks
PROPERTY EveryCheckEnds
