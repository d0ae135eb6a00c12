SPECIFICATION KsdSpec
CHECK_DEADLOCK FALSE
CONSTANTS
  Chunk = 2
  Sizes = {0, 3}
  Fifo = 2
  LineMax = 3
  Pending = 2
  MaxCommands = 2
  MaxLost = 1
  MaxLogs = 1
INVARIANTS
  AcceptedStays
PROPERTIES
  Resynchronises
