CONSTANTS
  Null = Null
  f1 = f1
  f2 = f2
  o1 = o1
  o2 = o2
  b1 = b1
  s1 = s1
  s2 = s2
  SwMobs = {s1, s2}
  SwQueueSize = 2
  Bits = {b1}
  Frames = {f1, f2}
  Id <- MCId
  ObserverQueue = 1
  RxMobs = 2
  TxMobs = 0
  Observers = {o1}
  FragmentLength = 1
  Filters <- OneFilter
  PoolSize = 1
  MaxStops = 0
SPECIFICATION Spec
INVARIANT NoForgottenMailbox
