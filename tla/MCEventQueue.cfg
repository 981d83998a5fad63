SPECIFICATION Spec
CONSTANTS
  Location <- MCLocation
  NoLocation = NoLocation
  N_EVENTS = 3
  MaxStatements = 6
INVARIANTS
  TypeOK
  ExitsFindEverythingReported
  AFaultLosesTheTailOnly
