SPECIFICATION Spec
CONSTANTS
  Folders = {A, B, C}
  Requests = {r1, r2}
  MaxViews = 2
  MaxAgenda = 6
  Root = Root
  Unborn = Unborn
  Gone = Gone
  TheFile = TheFile
CHECK_DEADLOCK FALSE
SYMMETRY Symmetry
INVARIANTS TreeRooted DeleteIsDeep ViewsWithinLimit
