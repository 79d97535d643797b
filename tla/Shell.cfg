\* The shell: pipelines, redirections and failing calls.
CONSTANTS
  Pids = {3, 4, 5, 6, 7, 8}
  SHELL = 2
  MAX_FILE = 6
  CLOSE_ALL = 4
  MAXARGS = 3
  MaxFails = 1
  MaxLeft = 1
  LinesLate <- MCLinesLate
  Lines <- MCLines
SPECIFICATION Spec
INVARIANTS PromptWhenDone EachCommandOnce Wired
PROPERTY PromptComesBack
CHECK_DEADLOCK FALSE
