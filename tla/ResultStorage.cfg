SPECIFICATION Spec
CONSTANTS
  r1 = r1
  r2 = r2
  r3 = r3
  s1 = s1
  s2 = s2
  s3 = s3
  Results = {r1, r2, r3}
  Spools = {s1, s2, s3}
  NoSpool = NoSpool
  MaxValue = 2
  MaxResult = 3
  MaxOwner = 4
  MaxSpools = 2
SYMMETRY Symmetry
INVARIANTS
  Accounted
  Quotas
  Retained
