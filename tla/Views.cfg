SPECIFICATION FairSpec
CONSTANTS
  Ops = {o1, o2}
  MaxChanges = 2
  MaxFaults = 1
  None = None
CHECK_DEADLOCK FALSE
INVARIANTS NoChangeForgotten
PROPERTIES ChangesAppear TilesFillIn
