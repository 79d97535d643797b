CONSTANTS
  PAGE_SIZE = 2
  Programs <- MCPrograms
  USER_STACKBOTT = 22
  USER_STACK_SIZE = 2
  KERNEL_BASE = 26
  MaxForks = 2
  MaxBrk = 26
  CHUNK_SIZE = 6
  CHUNK_GAP = 2
  HEADER = 1
  MallocSizes = {0, 3, 8}
  Incs = {3, 12}
SPECIFICATION Spec
INVARIANTS ListIsTree FindsArea ChunksTile FreeMerged
PROPERTY ExitEnds
CHECK_DEADLOCK FALSE
