SPECIFICATION Spec
CONSTANTS
    Objects = {o1, o2}
    Methods = {"m", "n", "k"}
    Mapped = {"m", "k"}
    Prototypes <- TwoPrototypes
    MaxDepth = 4
SYMMETRY Symmetry
INVARIANTS TypeOK FoundItselfOnce SuperReachesBase ConstructorsInOrder
PROPERTY CallsReachOverride
