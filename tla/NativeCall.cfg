SPECIFICATION Spec
CONSTANTS
  Objects = {"o1", "o2"}
  Plain = "plain"
  Foreign = "foreign"
  Callables <- Some
  Arguments <- Lists
  MaxDepth = 2
INVARIANTS
  TypeOK
  ParametersGetTheirs
  TakenIsOwned
\* Every address may be in use.
CHECK_DEADLOCK FALSE
