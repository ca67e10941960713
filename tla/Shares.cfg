SPECIFICATION PagesFairSpec
CONSTANTS
  Sizes <- SmallFiles
  Permits <- SomePermits
  Visits = {s1}
  Tabs = {t1}
  MaxFaults = 1
  MaxVisits = 1
CHECK_DEADLOCK FALSE
INVARIANTS AnswersMatchRequest ReadsBounded SavedIsWhole
PROPERTIES NeverStalls
