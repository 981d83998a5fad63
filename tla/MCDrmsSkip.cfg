SPECIFICATION MCSpec
CONSTANTS
  t1 = t1
  t2 = t2
  c1 = c1
  c2 = c2
  main = main
  resolve = resolve
  NoThread = NoThread
  Thread <- OneThread
  Cell <- OneCell
  Segments <- Alone
  Routine <- MCRoutine
  Skipped <- ResolveSkipped
  MaxDepth = 3
  MaxCount = 17
  FirstCount = 9
  MaxSize = 2
  MaxPending = 3
CONSTRAINT Window
VIEW TimesByRank
INVARIANTS
  SkipCountsSkippedRoutines
PROPERTIES
  RefinesDynamicReadMemorySize
CHECK_DEADLOCK FALSE
