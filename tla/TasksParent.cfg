CONSTANTS
  Task = {t1, t2, t3}
  NULL = NULL
  RQ = RQ
  PID_MAX = 4
  TIMESLICE = 2
  ExitArgs = {}
  WaitArgs = {1, 2, 3}
  CloseArgs = {}
  InitExits = FALSE
SPECIFICATION Spec
SYMMETRY Symmetry
INVARIANT ParentFound
