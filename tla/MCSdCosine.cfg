CONSTANTS
  e1 = e1
  e2 = e2
  r1 = r1
  r2 = r2
  t1 = t1
  t2 = t2
  t3 = t3
  t4 = t4
  Executors <- One
  Requests = {r1, r2}
  Query <- MCQuery
  Ranges <- MCRanges
  Index <- MCIndex
  EndPics <- MCEndPics
  Tids = {t1, t2, t3, t4}
  FreshPow = {0, 7}
  Faults = {}
  Timeout = TRUE
SPECIFICATION Spec
INVARIANT
  CosineReply
CHECK_DEADLOCK FALSE
