SPECIFICATION FairSpec
CONSTANTS
  Classes <- Numbered
  NoClass = 0
  Programs <- SmallPrograms
  MaxDeclarations = 7
INVARIANTS
  TypeOK
  BasesAreWrapped
  OutputComplete
PROPERTIES
  OrderSpec
  ProcessEnds
\* The plugin ends.
CHECK_DEADLOCK FALSE
