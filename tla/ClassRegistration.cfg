SPECIFICATION Spec
CONSTANTS
  Types <- TwoTypes
  NoType = "none"
  Base <- DerivedFromB
  Names = {"a", "name"}
  ReservedStatic = {"name"}
  GlobalNames = {"New", "Holder", "JSON"}
  ReservedGlobal = {"JSON"}
  MaxEntries = 2
INVARIANTS
  TypeOK
  TemplatesInterchangeable
  ConstNamesInPlain
PROPERTY OrderSpec
