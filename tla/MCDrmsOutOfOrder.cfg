SPECIFICATION MCSpec
CONSTANTS
  t1 = t1
  t2 = t2
  c1 = c1
  c2 = c2
  main = main
  resolve = resolve
  NoThread = NoThread
  Thread <- MCThread
  Cell <- OneCell
  Segments <- Alone
  Routine <- MCRoutine
  Skipped <- ResolveSkipped
  MaxDepth = 2
  MaxCount = 19
  FirstCount = 12
  MaxSize = 1
  MaxPending = 2
CONSTRAINT Window
SYMMETRY ThreadSymmetry
VIEW TimesByRank
INVARIANTS
  NeverOutOfOrder
