SPECIFICATION Spec
CONSTANTS
  Years = {1992, 1993, 1995}
  Doys = {60, 366}
  ThisYear = 1993
  Today = {5, 60}
  Directories <- MCDirectories
  Spans <- MCSpans
  MaxRuns = 2
  MaxScenes = 1
INVARIANTS TypeOK SameDay OzoneUnlessRemoved BestOfThisRun
PROPERTIES RemovedOnlyWithData
CHECK_DEADLOCK FALSE
CONSTRAINT Bound
