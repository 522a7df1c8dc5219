SPECIFICATION Spec
CONSTANTS
  None = None
  ann = ann
  bob = bob
  Round <- MCRound
  Wallet <- MCWallet
  MaxClicks = 4
  MaxWorld = 2
  MaxReads = 3
PROPERTIES LiveFollowsTheRound ObserverFollowsTheRound
SYMMETRY WalletSymmetry
CHECK_DEADLOCK FALSE
