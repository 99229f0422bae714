\* One delivery with three replays: on the queue together they are handled
\* by two fibers at a time.
SPECIFICATION FairSpec
CONSTANTS
  Sub = {s1}
  Event = {e1}
  PublishCalls = 1
  Replays = 3
  Prefetch = 2
  MaxLosses = 1
  MaxAttempts = 5
  Message <- MCMessage
  AttemptOf <- LateReplays
INVARIANTS
  TypeOK
  DeliveredRowIsTrue
  GivesUpOnlyOnReplays
  AttemptsCountFailures
PROPERTIES
  KeepsContract
  FlipsOnlyByRerun
  QueuedIsSettled
CHECK_DEADLOCK FALSE
