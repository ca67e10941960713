SPECIFICATION Spec
CONSTANTS
  Requests = {r1, r2}
  Sweepers = {w1}
  Readers = {}
  PrimaryKinds = {"LOCAL", "DISCORD"}
  ReplicaKinds = {"TELEGRAM"}
  MaxAttempts = 1
  MaxPuts = 2
  Events = {"purge", "commit", "probe", "crash", "delete"}
  MaxFaults = 1
  None = None
CHECK_DEADLOCK FALSE
SYMMETRY Symmetry
INVARIANTS TypeOK PlacementsMatchBlob AckedUploadDurable
