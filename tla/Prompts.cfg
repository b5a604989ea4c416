SPECIFICATION Spec
CONSTANTS
  p1 = p1
  p2 = p2
  b1 = b1
  t1 = t1
  t2 = t2
  Profiles <- MCProfiles
  Prompted <- MCPrompted
  Buffers <- MCBuffers
  Texts <- MCTexts
  MaxConnections = 2
  MaxGeneration = 3
  MaxWrites = 2
  MaxPages = 1
SYMMETRY MCSymmetry
INVARIANTS Fenced WritableConfirmed WritesReviewed
CHECK_DEADLOCK FALSE
