\* Six ids, room for five, four let through in 30 seconds.
SPECIFICATION DedupSpec
CONSTANTS
  Doc = {d1, d2, d3, d4, d5, d6}
  CacheSize = 5
  PerWindow = 4
PROPERTIES
  SkipsWithinWindow
