\* The smallest instance with a recovery and a setSilent().
SPECIFICATION Spec
CONSTANTS
  FragmentSize = 1
  NoItem = NoItem
  Senders = {app}
  Can = can
  TxMobs = 2
  WaitTimes = {1}
  DefaultWait = 1
  TryWrap = 4
  Items = {c1}
  Offset <- NoOffset
  Intervals = {2}
  TimeWrap = 8
  WordWrap = 32
  LastTime = 0
  MaxSlots = 1
  CountCap = 0
  MaxStops = 0
INVARIANTS
  SilentAsSet
