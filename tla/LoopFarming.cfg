SPECIFICATION MCSpec
CONSTANTS
  u1 = u1
  u2 = u2
  p1 = p1
  p2 = p2
  t1 = t1
  t2 = t2
  flp = flp
  other = other
  Users = {u1, u2}
  Pools = {p1, p2}
  Tokens = {t1, t2}
  Liquidity = {flp, other}
  NotListed = NotListed
  Flp <- MCFlp
  Unit = 10
  fee_multiplier = 10
  FirstOwner = u1
  FirstFee = 2
  NewOwners = {u2}
  NewFees = {11}
  FirstDistribution <- OneToken
  InitLp <- OneTwoLp
  Amounts = {1, 2}
  Rewards = {5}
  MaxRewards = 10
INVARIANTS
  NoUnderflow
  FarmBooks
PROPERTIES
  StakersKept
CHECK_DEADLOCK FALSE
