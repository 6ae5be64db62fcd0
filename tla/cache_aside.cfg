CONSTANTS
  Workers = {w1, w2}
  MaxId = 2
  Skus = {s1}
  NoSku = nosku
  Vals = {v1, v2}
  NonJson = {v2}
  None = none
  Blank = blank
  TTL = 2
  Timeout = 2
SYMMETRY Symmetry
SPECIFICATION Spec
INVARIANT NoStaleCopyAtRest
