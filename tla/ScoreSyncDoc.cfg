\* One submission, and the process ends once.
SPECIFICATION ScoreFairSpec
CONSTANTS
  Submission = {s1}
  ScoreBatch = {b1}
  MaxPoints = 1
  MaxServerFaults = 1
PROPERTY
  DivergenceIsReconciled
CHECK_DEADLOCK FALSE
