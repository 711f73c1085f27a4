SPECIFICATION MCSpec
CONSTANT NoProposal = NoProposal
INVARIANTS
  PricesTrue
PROPERTIES
  PoolProtected
  HandoverSound
CHECK_DEADLOCK FALSE
