SPECIFICATION Spec
CONSTANTS
  Width = 2
  Sizes <- MCSizes
  DefaultSize = 1
  MaxFilters = 2
  MaxSelected = 1
  MaxPage = 1
  MaxChanges = 4
INVARIANT EditsSelected
