SPECIFICATION FairSpec
CONSTANTS
  Calls = {d1, d2}
  Streams = {s1}
  Pool = 2
  Retries = 1
  MaxChunks = 3
  MaxSize = 2
  None = None
CHECK_DEADLOCK FALSE
INVARIANTS EntryTellsTheTruth StreamsExactly
PROPERTIES SavesWholeFiles DownloadsEnd
