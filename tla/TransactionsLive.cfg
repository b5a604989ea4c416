SPECIFICATION LiveSpec
CONSTANTS
  Names = {a, b}
  NoName = NoName
  MaxConnections = 2
  Watched = {a}
PROPERTIES
  OperationsEnd
  RevokedReleased
  PendingEnds
