\* The smaller parts of the library, one per behaviour.
SPECIFICATION Spec
CONSTANTS
  UartFifoSize = 2
  UartQueueSize = 3
  UartBytes = {10, 0}
  Terminators <- MCTerminators
  LineEnds = {10}
  BufSizes = {1, 3}
  MaxArrivals = 4
  LinFifoSize = 2
  LinQueueSize = 4
  Ids = {a, b}
  SlaveIds = {a}
  Data <- MCData
  None = None
  MaxHeaders = 2
  MaxCalls = 2
  SpiLengths = {1, 2}
  MaxSpiCalls = 3
  PacketSizes = {1, 2, 3}
  ReadSizes = {1, 2}
  MaxConnects = 3
  Setters = {s1, s2}
  NumBytes = 2
  Bits = {1}
  Unlocked = Unlocked
  MaxSets = 2
  NoChannel = NoChannel
  ByteValues = 2
  IndexWrap = 4
  Counts = {0, 1, 3, 4, 5}
  LowChannels = {0, 1}
  HighChannels = {5, 6}
  Msb = Msb
  Dimmings = {0, 1, 2}
  StepTypes = {1, 2, 4}
  MaxTurn = 4
  Keys = {k1, k2, k3}
  Values = {1, 2}
  MaxItems = 5
  RingSize = 3
  MaxPushes = 5
INVARIANTS
  TypeOK
  UartNoneLeftBehind
  UartStopsAtTerminator
  LinAcceptsPublished
  LinCalledForHeaders
  SpiReadsItsBytes
  UsbReaderWakes
  UsbWriterWakes
  UsbSenderWakes
  UsbTrueWhenSent
  CyclicSetsAddUp
  MethodsFramed
  WordsKept
  McChannelsAgree
  
  EncoderCounts
  ListRemoves
  HashReadsLatest
  RingAndSumAgree
PROPERTIES
  LinReceiveEnds
  SpiEnds
CHECK_DEADLOCK FALSE
