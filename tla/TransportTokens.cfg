SPECIFICATION Spec
CONSTANTS
  c1 = c1
  c2 = c2
  o1 = o1
  o2 = o2
  o3 = o3
  Callers = {c1}
  Ops = {o1, o2, o3}
  Reader = Reader
  Writer = Writer
  Actor = Actor
  NoThread = NoThread
  HostWindow = 0
  PluginWindow = 1
  Headroom = 1
  MaxEarly = 2
  MaxLate = 0
  MaxSerial = 1
SYMMETRY Symmetry
INVARIANTS
  StopCancels
  CancelReaches
CHECK_DEADLOCK FALSE
