SPECIFICATION Spec
CONSTANTS
  Thread = {t1, t2}
  Shared = Shared
  Fn <- MCFn
  Skipped <- MCSkipped
  Discarded <- MCDiscarded
  DopeFn <- MCDopeFn
  Size <- MCSize
  NoNode = NoNode
  Garbage = Garbage
  StackSize = 1
  ULongSpan = 64
  MaxDepth = 3
  MaxBlocks <- MCMaxBlocks
  MaxThreads <- MCMaxThreads
SYMMETRY MCSymmetry
CHECK_DEADLOCK FALSE
INVARIANTS
  TypeOK
  CountersMatchStack
  ContextsAreCallers
  ReportsDefineTheirContexts
  TuplesPassMerge
PROPERTIES
  RefinesRoutineTimes
