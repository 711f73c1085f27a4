SPECIFICATION MCSpec
CONSTANTS
    u1 = u1
    u2 = u2
    u3 = u3
    Voters = {u1, u2, u3}
    VoterLists <- Lists
    Thresholds <- SomeThresholds
    One = 4
    MaxVotingPeriod = 1
    Latests <- Expirations
    MaxProposals = 2
    MaxTime = 2
INVARIANTS
  MultisigSound
PROPERTIES
  EventuallyDecided
  GroupSound
  ClaimsSound
  WalksSound
CHECK_DEADLOCK FALSE
