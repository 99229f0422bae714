SPECIFICATION Spec
CONSTANTS
  Sub = {s1}
  Event = {e1}
  PublishCalls = 2
  Replays = 0
  Prefetch = 1
  MaxLosses = 1
  MaxAttempts = 5
  Message <- MCMessage
  AttemptOf <- LateReplays
INVARIANT ScheduledRetryIsQueued
CHECK_DEADLOCK FALSE
