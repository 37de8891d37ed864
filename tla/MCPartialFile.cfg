SPECIFICATION CacheSpec
CONSTANTS
  c1 = c1
  c2 = c2
  Calls = {c1, c2}
  CacheMaxFaults = 0
  MaxLapses = 0
  MaxCrashes = 0
PROPERTIES ReadersSeeWholeFiles
CHECK_DEADLOCK FALSE
