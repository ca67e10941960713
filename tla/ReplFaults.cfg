SPECIFICATION Spec
CONSTANTS
  Requests = {r1, r2}
  Sweepers = {w1}
  Readers = {x1}
  PrimaryKinds = {"DISCORD"}
  ReplicaKinds = {"TELEGRAM"}
  MaxAttempts = 2
  MaxPuts = 3
  Events = {"lose", "crash", "get", "put", "delete"}
  MaxFaults = 2
  None = None
CHECK_DEADLOCK FALSE
SYMMETRY Symmetry
INVARIANTS OneWriterPerRow
PROPERTIES HealedCopyMatchesHash ImplementsDurableBlob
