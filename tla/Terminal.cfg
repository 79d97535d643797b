SPECIFICATION Spec
CONSTANTS
  KB_IN_BYTES = 6
  TTY_BUF_SIZE = 3
  MaxEvents = 4
  CRT_ROWS = 2
  CRT_COLS = 3
  BUFLEN = 3
  OutChars = {"TAB", "CR"}
INVARIANTS InBounds RingInStep ModifiersRight LinesAsMeant EchoMatches
PROPERTY LinesReturned
CHECK_DEADLOCK FALSE
