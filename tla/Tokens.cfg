SPECIFICATION MCSpec
CONSTANTS
    a = a
    b = b
    c = c
    None = None
    Callers = {a, b}
    Contracts = {c}
    InitialLists <- Lists
    InitialMints = {None}
    InitialMarketings = {None}
    OldAllowances <- OldGrants
    Amounts = {1, 2}
    Expirations = {None, 1, 2}
    Logos = {}
    MaxSupply = 2
    MaxAllowance = 2
    MaxMinted = 0
    MaxTime = 2
INVARIANTS
  Cw20Sound
  AllowancesAgree
  VestingSound
  CurvesSound
PROPERTIES
  SpendingAuthorized
  PayoutsSound
CHECK_DEADLOCK FALSE
