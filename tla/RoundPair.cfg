SPECIFICATION FairSpec
CONSTANTS
  ann = ann
  bob = bob
  op = op
  None = None
  Account <- PairAccount
  Terms <- PairTerms
  Funds <- PairFunds
  DrandRound = {1, 2}
  Value = {1}
  Escrow = {2}
  MAX_BIDDERS = 2
  VOID_GRACE = 1
  DRAND_GENESIS = 0
  DRAND_PERIOD = 2
  U64_MAX = 10
  MaxRounds = 2
  MaxTime = 7
  MaxCommitted = 4
CHECK_DEADLOCK FALSE
INVARIANTS EscrowBacked
PROPERTIES EveryRoundResolves
