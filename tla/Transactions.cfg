SPECIFICATION Spec
CONSTANTS
  Names = {a, b, c}
  NoName = NoName
  MaxConnections = 2
  Watched = {}
SYMMETRY Symmetry
INVARIANTS
  CrashSafe
  Protected
  InDoubtNotReused
  OneOperation
  LimitedConnections
  NothingCancelledIsPending
  HonestVerdict
PROPERTIES
  OwnCancellation
  ImplementsMarker
