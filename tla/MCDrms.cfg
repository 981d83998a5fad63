SPECIFICATION MCSpec
CONSTANTS
  t1 = t1
  t2 = t2
  c1 = c1
  c2 = c2
  main = main
  resolve = resolve
  NoThread = NoThread
  Thread <- MCThread
  Cell <- OneCell
  Segments <- Alone
  Routine <- OnlyMain
  Skipped <- NoneSkipped
  MaxDepth = 2
  MaxCount = 19
  FirstCount = 12
  MaxSize = 2
  MaxPending = 3
CONSTRAINT Window
SYMMETRY ThreadSymmetry
VIEW TimesByRank
INVARIANTS
  HTypeOK
  TimesOrdered
  RenumberingKeepsKnown
  ShadowsMatchHistory
  InputIsTelescoped
  DynamicWithinInput
PROPERTIES
  RefinesDynamicReadMemorySize
