SPECIFICATION FairSpec
CONSTANTS
  one = one
  two = two
  ann = ann
  bob = bob
  None = None
  Keeper <- OneKeeper
  Bidder <- MCBidder
  Bidders <- MCBidders
  Seals <- MCSeals
  Skew <- OneSkew
  BEACON = 1
  REVEAL_DEADLINE = 2
  VOID_GRACE = 1
  MaxTime = 4
  MaxFaults = 2
INVARIANTS TypeOK CursorHonest
PROPERTIES PassRevealsAll RoundCompletes
