\* Two tasks, two mailboxes, one cyclic message in a list of two slots.
SPECIFICATION Spec
CONSTANTS
  FragmentSize = 2
  NoItem = NoItem
  Senders = {app}
  Can = can
  TxMobs = 2
  WaitTimes = {0, 1}
  DefaultWait = 0
  TryWrap = 2
  Items = {c1}
  Offset <- NoOffset
  Intervals = {2, 3}
  TimeWrap = 8
  WordWrap = 32
  LastTime = 3
  MaxSlots = 2
  CountCap = 4
  MaxStops = 1
INVARIANTS
  TypeOK
  MobExclusive
  ItemStaysRegistered
  CyclicRate
