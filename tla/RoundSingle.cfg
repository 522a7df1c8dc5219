SPECIFICATION Spec
CONSTANTS
  ann = ann
  bob = bob
  op = op
  None = None
  Account <- MCAccount
  Terms <- SingleTerms
  Funds <- MCFunds
  DrandRound = {0, 1, 9}
  Value <- MCValue
  Escrow <- MCEscrow
  MAX_BIDDERS = 2
  VOID_GRACE = 1
  DRAND_GENESIS = 0
  DRAND_PERIOD = 2
  U64_MAX = 10
  MaxRounds = 1
  MaxTime = 5
  MaxCommitted = 5
CHECK_DEADLOCK FALSE
INVARIANTS TypeOK EscrowBacked BooksBalance PayoutNeverRefused WinnerIsBest RevealedIsSealed VoidedIsHarmless
PROPERTIES FrozenOncePublished TerminalIsFinal KeepsPromise
