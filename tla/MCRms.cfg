SPECIFICATION HSpec
CONSTANTS
  c1 = c1
  c2 = c2
  main = main
  resolve = resolve
  Cell <- MCCell
  Routine <- MCRoutine
  Skipped <- MCSkipped
  MaxDepth = 3
  IdSpan = 6
INVARIANTS
  HTypeOK
  IdsOrdered
  SkipCountsSkippedRoutines
  ShadowMatchesHistory
  InputIsTelescoped
PROPERTIES
  RefinesReadMemorySize
