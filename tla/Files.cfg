SPECIFICATION Spec
CONSTANTS
  PIPE_SIZE = 2
  WIDTH = 8
  Procs = {p1, p2}
  InitProc = p1
  MAX_FILE = 3
  MaxLost = 1
  Opens <- MCOpens
  RAM_SIZE = 1
  MaxFiles = 3
  MaxPipes = 1
  MaxCount = 2
INVARIANTS FilesCounted PipesInOrder
CHECK_DEADLOCK FALSE
