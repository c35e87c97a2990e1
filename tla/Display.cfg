SPECIFICATION Spec
CONSTANTS
  Cpu = {c1, c2}
  VGA_ROWS = 2
  VGA_COLS = 3
  IntBits = 4
  LongBits = 5
  ByteBits = 2
  BufSize = 3
  Formats <- MCFormats
  Dump <- MCDump
  Vectors = {0, 14}
  MaxCalls = 2
INVARIANT ScreenShowsText
PROPERTY FaultsAreReported
CHECK_DEADLOCK FALSE
