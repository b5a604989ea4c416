SPECIFICATION Spec
CONSTANTS
  c1 = c1
  c2 = c2
  o1 = o1
  o2 = o2
  o3 = o3
  Callers = {c1, c2}
  Ops = {}
  Reader = Reader
  Writer = Writer
  Actor = Actor
  NoThread = NoThread
  HostWindow = 1
  PluginWindow = 2
  Headroom = 1
  MaxEarly = 1
  MaxLate = 1
  MaxSerial = 3
SYMMETRY Symmetry
INVARIANTS
  OrderedIds
  StopReleases
  QueueFits
CHECK_DEADLOCK FALSE
