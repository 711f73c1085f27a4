SPECIFICATION MCSpec
CONSTANTS
  Users = {u1, u2}
  Unit = 10
  treasury_fee = 2
  syne_staking_fee = 0
  Vault = Vault
  Converter = Converter
  u1 = u1
  u2 = u2
  Nobody = Nobody
  FirstAdmin = u1
  Durations = {6, 12}
  QueryDuration = 12
  InitLoop <- MCLoop
  DonationAddresses = {u1, Nobody}
  Amounts = {1, 2}
  AccruedRewards = {6}
  MaxLoop = 10
  NewDurations = {6, 12}
  NewAdmins = {u2}
  AdminMints = {2}
  MaxPower = 20
  MaxSupply = 4
INVARIANTS
  VaultBooks
PROPERTIES
  MintIsBacked
  RequestsHonoured
  TransactionsEnd
  ImplementsStakingVault
