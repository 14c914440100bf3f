SPECIFICATION Spec
CONSTANTS
  a1 = a1 a2 = a2 a3 = a3 b1 = b1 b2 = b2 ta = ta tb = tb
  Player = {p}
  Match = {a1, a2, b1}
  Tournament = {ta, tb}
  TournamentOf <- MCTournamentOf
  StageOf <- MCStageOf
  Registered <- MCRegistered
  CardSeqs <- MCCardSeqs
  MaxCards = 3
  YellowLimit = 2
  YellowMatches = 1
  RedMatches = 1
  ClearOnStage = {tb}
INVARIANT ServedExactly
CHECK_DEADLOCK FALSE
