SPECIFICATION MCSpec
CONSTANTS
  Users = {u1, u2}
  Unit = 10
  treasury_fee = 2
  syne_staking_fee = 1
  Vault = Vault
  Converter = Converter
  u1 = u1
  u2 = u2
  Nobody = Nobody
  FirstAdmin = u1
  Periods = {7, 8}
  FirstPeriod = 7
  NewPeriods = {0, 8}
  NewAdmins = {u2}
  InitWynd <- MCWynd
  Amounts = {1, 2}
  Donations = {2}
  DonationAddresses = {u2, Nobody}
  AdminMints = {2}
  AccruedRewards = {5}
  MaxWynd = 14
  MaxPower = 20
  MaxSupply = 20
INVARIANTS
  BwyndSound
PROPERTIES
  QueriesTrue
  ImplementsStakingVault
