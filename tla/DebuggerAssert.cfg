SPECIFICATION Spec
CONSTANTS
  Handles = {h1, h2}
  NoHandle = NoHandle
  MaxMessages = 0
SYMMETRY Symmetry
INVARIANT OneConnectionAssertions
\* The program may have used up its clients.
CHECK_DEADLOCK FALSE
