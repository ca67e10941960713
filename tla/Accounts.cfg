SPECIFICATION Spec
CONSTANTS
  Requests = {r1, r2, r3}
  Sessions = {s1}
  Keys = {k1}
  Verify = {v1}
  Resets = {t1}
  Deletions = {d1}
  MaxRequests = 1
  First = First
  None = None
CHECK_DEADLOCK FALSE
SYMMETRY Symmetry
INVARIANTS RevokedOnlyByRace ResetKillsSessions LinksWorkOnce
PROPERTY MigrationKeepsPassword
