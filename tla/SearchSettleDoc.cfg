SPECIFICATION FairSpec
CONSTANTS
  r1 = r1
  r2 = r2
  text = text
  blank = blank
  Request = {r1}
  Content = {text, blank}
  ContentOf <- TextAndBlank
  ChunkCount <- TwoChunks
  PublishCalls = 2
  Prefetch = 2
  MaxLosses = 0
  Message <- MCMessage
PROPERTIES
  EveryMessageIsSettled
CHECK_DEADLOCK FALSE
