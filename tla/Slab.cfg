CONSTANTS
  MAXORDER = 3
  NORMAL = 15
  Base = 1
  Maps <- MCMaps
  MaxHeld = 4
  OBJECTS = 3
  Sizes = {0, 96, 97}
SPECIFICATION Spec
INVARIANTS PagesAccounted NoSplitRun ObjectsAccounted SlabListsExact
CHECK_DEADLOCK TRUE
