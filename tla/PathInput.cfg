SPECIFICATION Spec
CONSTANTS
  n1 = n1
  n2 = n2
  f1 = f1
  f2 = f2
  f3 = f3
  Names = {n1, n2}
  Surfaces = {f1, f2, f3}
  MaxProfiles = 2
  Slots = 2
  MaxPrompts = 6
INVARIANTS
  StartsAgain
  OnePath
PROPERTIES
  Superseded
  PathAnswered
