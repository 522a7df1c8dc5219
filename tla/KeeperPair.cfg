SPECIFICATION Spec
CONSTANTS
  one = one
  two = two
  ann = ann
  bob = bob
  None = None
  Keeper <- TwoKeepers
  Bidder <- MCBidder
  Bidders <- MCBidders
  Seals <- PairSeals
  Skew <- MCSkew
  BEACON = 0
  REVEAL_DEADLINE = 1
  VOID_GRACE = 0
  MaxTime = 2
  MaxFaults = 1
PROPERTIES PassRevealsAll
