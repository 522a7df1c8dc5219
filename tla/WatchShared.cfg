SPECIFICATION FairSpec
CONSTANTS
  one = one
  two = two
  cli = cli
  None = None
  Here = Here
  There = There
  Watcher <- TwoWatchers
  Cli <- OneCli
  Round = {1, 2}
  Poison = {1}
  LEASE = 1
  Setups <- SharedSetups
CHECK_DEADLOCK FALSE
INVARIANTS QueueSeparation TerminalIsTrue LeaseExclusive
PROPERTIES LeaseKept RoundsFinish
