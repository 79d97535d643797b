SPECIFICATION Spec
CONSTANTS
  BUCKETS = 4
  Addrs = {0, 2}
  BootAddrs <- MCBootAddrs
  DOT = 1
  Dev <- MCDev
  Tty <- MCTty
  RamFiles <- MCRamFiles
  NewNames <- MCNewNames
  MaxDentries = 7
INVARIANT EveryFileFound
CHECK_DEADLOCK FALSE
