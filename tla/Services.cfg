SPECIFICATION ServicesSpec
CONSTANTS
  \* The change stream: a burst longer than the queue, a full dedup cache.
  Doc = {d1, d2}
  QueueSize = 2
  CacheSize = 2
  PerWindow = 1
  MaxChanges = 4
  MaxRestarts = 1
  \* The poller: more new users than a poll takes, three polls, a restart.
  NewUser = {n1, n2}
  Batch = 1
  MaxPolls = 3
  MaxPollerStops = 1
  \* The mail worker: a first, a last and an invalid attempt.
  Message = {m1, m2}
  Prefetch = 2
  MaxLosses = 1
  JobAttempts = {0, 2, 6}
  MaxMailAttempts = 3
  \* The fan-out.
  Client = {w1}
  MaxScore = 3
  MaxBreaks = 1
  \* Feature flags.
  Flag = {f1}
  FlagUser = {v1}
  FlagCall = {i1, i2}
  MaxVersions = 3
  \* Search.
  h1 = h1
  h2 = h2
  h3 = h3
  Chunk = {h1, h2, h3}
  TextOrder <- ByText
  VectorOrder <- ByVector
  TrigramOrder <- ByTrigram
  Passing = {h1}
  Limit = 1
  CandidateLimit = 2
  \* the least common multiple of 61, 62 and 63
  Unit = 238266
  SearchCall = {x1, x2}
  MaxCorpora = 2
  \* The stand-alone leaderboard's writes: two submissions that may overlap,
  \* two batches in flight, a failure or the end of the process.
  Submission = {s1, s2}
  ScoreBatch = {b1, b2}
  MaxPoints = 2
  MaxServerFaults = 1
  \* Its reads: one viewer while two players score.
  Rival = {p1, p2}
  Viewer = {v1}
  MaxBoards = 3
  \* Its client: three requests, and a server it cannot reach.
  Ask = {a1, a2, a3}
  NoAsk = NoAsk
  MaxSubmit = 2
  MaxTries = 2
  \* The backup: two runs that may overlap.
  Dump = {k1, k2}
  Old = {o1}
  MaxFailed = 2
  \* A worker process that is started twice.
  MaxStarts = 2
INVARIANTS
  TypeOK
  LostChangeIsExplained
  CachedAnswerIsExplained
  ClientViewIsExplained
  RowIsExplained
  ReportIsExplained
PROPERTIES
  EmailKeepsContract
  PendingIsFlushed
\* Every bound stops a part in the end.
CHECK_DEADLOCK FALSE
