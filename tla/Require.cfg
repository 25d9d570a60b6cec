SPECIFICATION Spec
CONSTANTS
  Threads = {t1, t2}
  Isolates = {i1}
  NoIsolate = NoIsolate
  Paths <- TwoPaths
  Requests <- NameAndData
  Disk <- NameAndDataDisk
  Modes = {"cached", "tracked", "uncached"}
  Imports <- DataImport
  MaxDepth = 2
  MaxRuns = 2
  MaxClock = 2
SYMMETRY Symmetry
INVARIANTS
  TypeOK
  SameValueEveryTime
  DocumentedSearchOrder
  ResultsOfThisIsolate
\* The bound on runs stops the callers.
CHECK_DEADLOCK FALSE
