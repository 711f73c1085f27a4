SPECIFICATION MCSpec
CONSTANTS
  u1 = u1
  u2 = u2
  Scenes = {"rewards"}
  Users = {u1, u2}
  Admin = Admin
  Durations = {1, 2}
  InitDurations <- MCOneDuration
  REWARD_CALC_UNIT = 1000
  Cap = 48
  StartTime = 4
  MaxTime = 9
  InitConfig <- MCConfig
  Settings <- MCSettings
  OwnerCandidates = {u1, u2}
  FreezeFlags = {TRUE, FALSE}
  NewDurations = {2}
  RewardRates = {10}
  StakeAmounts = {4}
  DepositAmounts = {20}
  InitWallet <- MCWholeDecayWallet
INVARIANT UnstakeAllowed
SYMMETRY UserSymmetry
