SPECIFICATION ManSpec
CONSTANTS
  ManRequests = {x, y}
  ManRevisions = 3
  ManEmpty = {}
  ManFaults = 0
INVARIANT RangesFollowNpm
CHECK_DEADLOCK FALSE
