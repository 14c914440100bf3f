SPECIFICATION DaySpec
CONSTANTS
  a1 = a1 a2 = a2 a3 = a3 b1 = b1 b2 = b2 ta = ta tb = tb
  Player = {p}
  Match = {a1, a3, b1, b2}
  Tournament = {ta, tb}
  TournamentOf <- MCTournamentOf
  StageOf <- MCStageOf
  Registered <- MCRegistered
  CardSeqs <- MCCardSeqs
  MaxCards = 3
  YellowLimit = 2
  YellowMatches = 1
  RedMatches = 2
  ClearOnStage = {tb}
  h = h a = a
  Registration = {h, a}
  TeamOf <- MCTeamOf
  Slots = 1
  Regular = 1
  Extra = 2
  RosterSizes = {1}
  Changing = {h}
  MaxSegment = 2
  MaxEvents = 1
  Request = {q1, q2, q3}
  Person = {d1, d2}
  Dorsal = {n1, n2}
  d1 = d1 d2 = d2 n1 = n1 n2 = n2
  Files <- MCFiles
  Upload = {u1, u2, u3}
  NoKey = noKey
  s1 = s1 s2 = s2 s3 = s3 o = o
  Squad = {s1, s2, s3, o}
  Starter = {s1, s2}
  Bench = {s3}
  Time <- MCTime
  SegmentsAt <- MCSegmentsAt
  MaxSubs = 2
  MaxWindows = 1
  Reentry = TRUE
  MaxReport = 4
INVARIANTS
  DayTypeOK
  SuspensionsInOrder
  OperationInOrder
  OneRegistration
  PicturesInOrder
  ReportAddsUp
PROPERTIES
  NoSuspendedPlays
  NeverStranded
  LockHonoured
  PlayedByThoseOnField
CHECK_DEADLOCK FALSE
