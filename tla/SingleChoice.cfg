SPECIFICATION MCSpec
CONSTANTS
  u1 = u1
  u2 = u2
  d1 = d1
  d2 = d2
  Users = {u1, u2}
  Daos = {d1, d2}
  Majority = Majority
  Unit = 10
  PRECISION_FACTOR = 10
  FirstConfigs <- MCConfigs
  Updates <- MCUpdates
  Periods <- MCPeriods
  Powers = {1, 2, 3}
  Totals = {0}
  MaxProposals = 2
  MaxTime = 2
INVARIANTS
  BallotsCounted
  DepositsReturned
PROPERTIES
  OutcomeSound
CHECK_DEADLOCK FALSE
