CONSTANTS
  r = r  t1 = t1  t2 = t2
  NoThread = NoThread
  Threads = {r, t1, t2}
  Reader = r
  MaxBuffer = 1
  StartNamed = TRUE
  MaxNotes = 7
  MaxReports = 2
SPECIFICATION FairSpec
INVARIANTS TypeOK OnceOnly InOrder QueueBounded
PROPERTIES ImplementsBook FlushEnds
CHECK_DEADLOCK FALSE
