SPECIFICATION FairSpec
CONSTANTS
  r1 = r1
  r2 = r2
  text = text
  blank = blank
  Request = {r1, r2}
  Content = {text, blank}
  ContentOf <- SameText
  ChunkCount <- TwoChunks
  PublishCalls = 1
  Prefetch = 1
  MaxLosses = 1
  Message <- MCMessage
INVARIANTS
  TypeOK
  UnindexedIsExplained
PROPERTIES
  AcceptedBecomesSearchable
CHECK_DEADLOCK FALSE
