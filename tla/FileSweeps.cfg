SPECIFICATION FairSpec
CONSTANTS
  Files = {f1}
  AnonFiles = {f1}
  Chunks = {c1, c2}
  Ops = {o1}
  Purgers = {"trash", "stale", "anon"}
  MaxFaults = 1
  None = None
CHECK_DEADLOCK FALSE
PROPERTIES DueFilesReclaimed OnlyDueFilesPurged
