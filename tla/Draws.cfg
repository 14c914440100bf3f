SPECIFICATION DrawsSpec
CONSTANTS
  Team = {a, b, c, d}
  Request = {q1, q2}
  Rounds = 2
  MaxId = 8
  MaxByHand = 1
  Entrant = {a, b, c, d}
  Creation = {r1}
  MaxGroups = 2
  MaxAdded = 1
  MaxSingle = 40
  MaxPower = 5
  MaxLeague = 16
  MaxGrouped = 7
INVARIANTS
  DrawsTypeOK
  
  
  DrawIsABracket
  CalendarIsFair
  TableIsRight
PROPERTY PublishedStays
CHECK_DEADLOCK FALSE
SYMMETRY Symmetry
