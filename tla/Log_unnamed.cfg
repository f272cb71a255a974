CONSTANTS
  r = r  t1 = t1  t2 = t2
  NoThread = NoThread
  Threads = {r, t1, t2}
  Reader = r
  MaxBuffer = 1
  StartNamed = FALSE
  MaxNotes = 8
  MaxReports = 2
SPECIFICATION Spec
INVARIANTS NothingLost
SYMMETRY ServerThreads
CHECK_DEADLOCK FALSE
