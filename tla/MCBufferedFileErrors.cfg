SPECIFICATION Spec
CONSTANTS
  BufferSize = 4
  UIntSpan = 16
  Errors <- MCErrors
  MaxBytes = 10
INVARIANTS
  NothingLost
