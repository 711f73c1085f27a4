SPECIFICATION MCSpec
CONSTANTS
  u1 = u1
  u2 = u2
  Scenes = {"rewards", "late", "settings"}
  Users = {u1, u2}
  Admin = Admin
  Durations = {1, 2}
  InitDurations <- MCOneDuration
  REWARD_CALC_UNIT = 1000
  Cap = 12
  StartTime = 4
  MaxTime = 11
  InitConfig <- MCConfig
  Settings <- MCSettings
  OwnerCandidates = {u1, u2}
  FreezeFlags = {TRUE, FALSE}
  NewDurations = {2}
  RewardRates = {2}
  StakeAmounts = {1}
  DepositAmounts = {4}
  InitWallet <- MCWallet
INVARIANTS
  RewardsFunded
  ClocksOrdered
  LedgersSound
PROPERTIES
  PastKept
  FreezeStopsOutflow
  PrincipalReturned
SYMMETRY UserSymmetry
