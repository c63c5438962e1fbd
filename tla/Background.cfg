SPECIFICATION FairSpec
CONSTANTS
  Listing = {l1}
  User = {a, b}
  Web = {w1, w2}
  OpenFor = 1
  MaxNow = 4
  MaxVersion = 1
  Announcement = {n1}
  Worker = {k1, k2}
  MaxCrashes = 2
  Event = {e}
  Subscriber = {u}
  Sweeper = {s1, s2}
  Band = {"16+", "unknown", "under"}
  MaxSubs = 3
  Runner = {r1, r2, r3}
  ExportSweep = r1
  Timeout = 2
  NoLock = NoLock
  MaxEdits = 1
INVARIANTS
  NobodyWaitsInVain
PROPERTIES
  SweepTakesTheStale
  AnnouncedOnce
  ConsentHolds
  ExportKeepsUp
CHECK_DEADLOCK FALSE
