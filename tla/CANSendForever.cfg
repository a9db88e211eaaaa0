\* As CANSend, without time, for the end of every sendMessage() whatever time is set.
SPECIFICATION FairSpec
CONSTANTS
  FragmentSize = 1
  NoItem = NoItem
  Senders = {app}
  Can = can
  TxMobs = 2
  WaitTimes = {2, 3}
  DefaultWait = 2
  TryWrap = 4
  Items = {c1}
  Offset <- NoOffset
  Intervals = {2}
  TimeWrap = 8
  WordWrap = 32
  LastTime = 0
  MaxSlots = 1
  CountCap = 0
  MaxStops = 1
PROPERTIES
  SendReturns
