SPECIFICATION Spec
CONSTANTS
  Run <- MCRun
  Scenarios <- MCScenarios
  NoValue = NoValue
  Attempts = 2
CHECK_DEADLOCK FALSE
INVARIANTS
  TypeOK
  RunsReportedOnce
  NothingMixed
  ToolKeepsEverything
PROPERTIES
  NeverOverwritten
  LoopsEnd
