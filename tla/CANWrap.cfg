\* Time wraps at 4; only the CAN task sends.
SPECIFICATION FairSpec
CONSTANTS
  FragmentSize = 1
  NoItem = NoItem
  Senders = {}
  Can = can
  TxMobs = 1
  WaitTimes = {1}
  DefaultWait = 1
  TryWrap = 4
  Items = {c1}
  Offset <- NoOffset
  Intervals = {2}
  TimeWrap = 4
  WordWrap = 16
  LastTime = 4
  MaxSlots = 1
  CountCap = 0
  MaxStops = 0
PROPERTIES
  CyclicKeepsSending
