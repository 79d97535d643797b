CONSTANTS
  PAGE_SIZE = 2
  Programs <- MCPrograms
  USER_STACKBOTT = 22
  USER_STACK_SIZE = 2
  KERNEL_BASE = 26
  MaxForks = 1
  MaxBrk = 26
  CHUNK_SIZE = 6
  CHUNK_GAP = 2
  HEADER = 1
  MallocSizes = {3}
  Incs = {1}
SPECIFICATION Spec
INVARIANT HeapCanGrow
CHECK_DEADLOCK FALSE
