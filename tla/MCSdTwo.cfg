CONSTANTS
  e1 = e1
  e2 = e2
  r1 = r1
  r2 = r2
  t1 = t1
  t2 = t2
  t3 = t3
  t4 = t4
  Executors <- Two
  Requests = {r1, r2}
  Query <- ShortQuery
  Ranges <- MCRanges
  Index <- MCIndex
  EndPics <- MCEndPics
  Tids = {t1, t2, t3, t4}
  FreshPow = {0}
  Faults = {"throws", "silent"}
  Timeout = TRUE
SPECIFICATION FairSpec
INVARIANTS
  OnePlace
  StrayNeedsThief
PROPERTIES
  SearchEnds
  KillAllEnds
CHECK_DEADLOCK FALSE
