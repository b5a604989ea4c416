SPECIFICATION Spec
CONSTANTS
  v1 = v1
  v2 = v2
  v3 = v3
  Pages = {1, 2, 3, 4, 5, 6, 7}
  HostViews = {v1, v2, v3}
  Revisions = {1, 2, 3, 4, 5, 6, 7, 8, 9}
  NoPage = NoPage
  NoView = NoView
  MaxPages = 2
  MaxReads = 2
  MaxInbox = 2
  MaxInputs = 6
INVARIANTS
  Shown
  SeenIsActed
  
  LoadingEnds
PROPERTIES
  DrainEnds
CHECK_DEADLOCK FALSE
