SPECIFICATION SpecProgram
CONSTANTS
  m0 = m0
  m1 = m1
  p0 = p0
  r0 = r0
  Thread = {t1, t2}
  NoThread = NoThread
  NoBlock = NoBlock
  Block <- MCBlock
  FirstBlock <- MCFirstBlock
  Code <- MCCode
  MaxSp = 3
  StackSize = 2
  MaxStackSize = 4
  MaxLost = 2
  MaxShared = 1
CONSTRAINT Bounded
CHECK_DEADLOCK FALSE
INVARIANTS
  LastExitIsOwn
