\* A read until a terminating sequence ends without it.
SPECIFICATION UartSpec
CONSTANTS
  UartFifoSize = 2
  UartQueueSize = 3
  UartBytes = {10, 0}
  Terminators <- MCTerminators
  LineEnds = {10}
  BufSizes = {1, 3}
  MaxArrivals = 4
INVARIANT UartFindsTerminator
CHECK_DEADLOCK FALSE
