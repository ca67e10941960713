SPECIFICATION FairSpec
CONSTANTS
  Requests = {r1, r2}
  Sweepers = {w1, w2}
  Readers = {}
  PrimaryKinds = {"DISCORD"}
  ReplicaKinds = {"TELEGRAM"}
  MaxAttempts = 4
  MaxPuts = 5
  Events = {"put", "get", "delete", "crash"}
  MaxFaults = 1
  None = None
CHECK_DEADLOCK FALSE
INVARIANT NoReplicaLeak
PROPERTY QueueDrains
