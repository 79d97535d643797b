\* The library: formats, strings, command lines and shell lines.
CONSTANTS
  WORD = 2
  LONG = 1024
  UINT = 2048
  PRINTBUF = 4
  MemSize = 8
  ErrorStrings <- MCErrorStrings
  Formats <- MCFormats
  Fields <- MCFields
  Arguments <- MCArguments
  Numbers <- MCNumbers
  BufSizes <- MCBufSizes
  ArgVectors <- MCArgVectors
  Lines <- MCLines
SPECIFICATION Spec
INVARIANTS BuffersExact LiteralKept FieldExact PrintedReadsBack MemmoveExact TokensExact NothingLost
CHECK_DEADLOCK FALSE
