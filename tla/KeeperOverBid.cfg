SPECIFICATION Spec
CONSTANTS
  one = one
  two = two
  ann = ann
  bob = bob
  None = None
  Keeper <- OneKeeper
  Bidder <- MCBidder
  Bidders <- MCBidders
  Seals <- OverSeals
  Skew <- OneSkew
  BEACON = 1
  REVEAL_DEADLINE = 2
  VOID_GRACE = 1
  MaxTime = 4
  MaxFaults = 0
PROPERTY PassRevealsAll
