\* Two objects, two names in two levels, positions up to one that looks like a failure.
SPECIFICATION Spec
CONSTANTS
    o1 = o1
    o2 = o2
    Object = {o1, o2}
    Name <- Names
    Way <- Ways
    Request <- Requests
    Amount = {1}
    Position = {0, 2}
    Label = {1, 2, 3}
    EmulatedLabel = 2
    LowWord = 3
    MaxSize = 1
    MaxDepth = 2
    MaxFiles = 3
    MovedReused = FALSE
CONSTRAINT OneIsUsed
VIEW View
SYMMETRY Symmetry
INVARIANTS HandlesAreOwned NameIsOwn ListingIsComplete
PROPERTIES OnlyOwnFile
CHECK_DEADLOCK FALSE
