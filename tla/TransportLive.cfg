SPECIFICATION FairSpec
CONSTANTS
  c1 = c1
  c2 = c2
  o1 = o1
  o2 = o2
  o3 = o3
  Callers = {c1}
  Ops = {}
  Reader = Reader
  Writer = Writer
  Actor = Actor
  NoThread = NoThread
  HostWindow = 1
  PluginWindow = 1
  Headroom = 0
  MaxEarly = 1
  MaxLate = 1
  MaxSerial = 2
PROPERTIES
  NothingHangs
CHECK_DEADLOCK FALSE
