SPECIFICATION Spec
CONSTANTS
  Addresses = {a1, a2}
  Objects = {o1, o2, o3}
  NoAddress = NoAddress
  NoObject = NoObject
SYMMETRY Symmetry
INVARIANT EveryObjectHasAnOwner
