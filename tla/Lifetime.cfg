SPECIFICATION FairSpec
CONSTANTS
  Isolates = {i1}
  Contexts = {c1}
  Scripts = {s1, s2}
  Jobs = {j1, j2}
  App = App
  NoThread = NoThread
  Nothing = Nothing
  MaxCreated = 2
INVARIANTS
  TypeOK
  NoGlobalOutlivesIsolate
  HandlesKeepIsolates
  RegistrationIsOwn
PROPERTIES
  RegistrationKept
  QueuedScriptsRun
  LastHandleDisposes
\* The bound on isolates created stops the application.
CHECK_DEADLOCK FALSE
