CONSTANTS
  Workers = {w1, w2}
  MaxId = 1
  Skus = {s1}
  NoSku = nosku
  Vals = {v1, v2}
  NonJson = {v2}
  None = none
  Blank = blank
  TTL = 1
  Timeout = 1
SPECIFICATION FairSpec
PROPERTIES EveryRequestEnds CacheConverges
