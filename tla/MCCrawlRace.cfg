\* Other programs stop after their operations.
CHECK_DEADLOCK FALSE
SPECIFICATION RaceSpec
CONSTANTS
  Path <- MCPath
  Ignored <- MCIgnored
  Stamp = {"s", "t"}
  Ino = {2, 3, 4, 5}
  Habits <- MCHabits
INVARIANTS CrawlsInSync CrawlsCover CrawlKeepsItsPlace IgnoredStaysOut
