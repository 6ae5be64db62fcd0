CONSTANTS
  MaxId = 5
  PageSize = 2
  NoLink = nolink
  Before <- OldestFirst
SPECIFICATION FairSpec
INVARIANTS TypeOK FileIsFaithful NoRowTwice
PROPERTY ExportEnds
CHECK_DEADLOCK FALSE
