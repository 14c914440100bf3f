SPECIFICATION ReportSpec
CONSTANTS
  s1 = s1 s2 = s2 b1 = b1
  Squad = {s1, s2, b1}
  Starter = {s1, s2}
  Bench = {b1}
  Time <- MCTime
  SegmentsAt <- MCSegmentsAt
  MaxSubs = 1
  MaxWindows = 1
  Reentry = FALSE
  MaxReport = 2
PROPERTIES
  PlayedByThoseOnField
CHECK_DEADLOCK FALSE
