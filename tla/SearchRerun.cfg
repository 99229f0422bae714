SPECIFICATION Spec
CONSTANTS
  r1 = r1
  r2 = r2
  text = text
  blank = blank
  Request = {r1, r2}
  Content = {text, blank}
  ContentOf <- TextAndBlank
  ChunkCount <- TwoChunks
  PublishCalls = 2
  Prefetch = 2
  MaxLosses = 0
  Message <- MCMessage
INVARIANTS
  CompletedIsIndexed
  DiscardedIsBuried
PROPERTIES
  KeepsContract
  FinalStatusChangesByRace
CHECK_DEADLOCK FALSE
