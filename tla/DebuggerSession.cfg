SPECIFICATION FairSpec
CONSTANTS
  Handles = {h1, h2, h3}
  NoHandle = NoHandle
  MaxMessages = 2
INVARIANTS
  TypeOK
  SessionMatchesConnections
  NeverDispatchWithoutSession
PROPERTIES
  ConnectionNotMissed
  AttachmentSpec
  PauseEnds
\* An assertion ends the process, and the program may have used up its clients.
CHECK_DEADLOCK FALSE
