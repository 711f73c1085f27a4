SPECIFICATION MCSpec
CONSTANTS
  u1 = u1
  u2 = u2
  poolA = poolA
  poolB = poolB
  Users = {u1, u2}
  Admin = u1
  FirstConfig <- Config
  Updates <- ConfigUpdates
  GaugeOptions = {poolA, poolB}
  VotingPeriod = 2
  PendingPeriods = {1, 3}
  OptionLists <- MCOptions
  Added <- AddB
  Removed <- RemoveA
  GaugeUpdates <- MCGauges
  VoteLists <- MCVotes
  Powers = {1, 2}
  MaxProposals = 1
  MaxTime = 3
  MaxVersion = 2
  MaxTotal = 4
INVARIANTS
  RoundSound
  WholeRounds
PROPERTIES
  OutcomeRecordKept
CHECK_DEADLOCK FALSE
