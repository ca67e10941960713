SPECIFICATION Spec
CONSTANTS
  Files = {f1}
  AnonFiles = {f1}
  Chunks = {c1, c2}
  Ops = {o1, o2}
  Purgers = {"anon", "one", "empty"}
  MaxFaults = 1
  None = None
CHECK_DEADLOCK FALSE
INVARIANTS TypeOK CommittedFileComplete LeftoversAreLate SharesLeadToFiles
SYMMETRY Symmetry
