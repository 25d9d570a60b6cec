SPECIFICATION Spec
CONSTANTS
  Isolates = {i1}
  Contexts = {c1}
  Scripts = {s1}
  Jobs = {j1}
  App = App
  NoThread = NoThread
  Nothing = Nothing
  MaxCreated = 1
INVARIANT ResultsKeepIsolate
\* The bound on isolates created stops the application.
CHECK_DEADLOCK FALSE
