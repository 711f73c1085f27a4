SPECIFICATION MCSpec
CONSTANTS
  u1 = u1
  u2 = u2
  Scenes = {"options"}
  Users = {u1, u2}
  Options = {1, 2, 3}
  One = 4
  Wynd <- MCGauge
  PendingSizes = {2}
  GaugeUpdates <- Limits
  ShortestEpoch = 2
  VoteLists <- AllVotes
  Removable = {1, 2}
  Addable = {1, 3}
  ConfigUpdates <- MCConverter
  Stoppable = TRUE
  Hooks = {TRUE, FALSE}
  Powers = {1, 3}
  FirstPower = 4
  MaxGauges = 2
  MaxTime = 5
  MaxEpochs = 2
INVARIANT VotesRemovable
CHECK_DEADLOCK FALSE
