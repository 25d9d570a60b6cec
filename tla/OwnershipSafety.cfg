SPECIFICATION Spec
CONSTANTS
  Addresses = {a1, a2}
  Objects = {o1, o2, o3, o4, o5}
  NoAddress = NoAddress
  NoObject = NoObject
SYMMETRY Symmetry
INVARIANTS
  TypeOK
  SingleOwner
  EntriesWrapTheirAddress
PROPERTIES
  OwnershipSpec
