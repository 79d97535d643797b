CONSTANTS
  Task = {t1, t2, t3}
  NULL = NULL
  RQ = RQ
  PID_MAX = 4
  TIMESLICE = 2
  ExitArgs = {1, 2, 3}
  WaitArgs = {0, 1, 2, 3, 5}
  CloseArgs = {0, 1}
  InitExits = FALSE
SPECIFICATION FairSpec
PROPERTY ImplementsRoundRobin
PROPERTY NoStarvation
