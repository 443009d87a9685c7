SPECIFICATION Spec
CONSTANTS
    Null = Null
    Images <- MCImages
    FdCount = 2
    RegionCount = 2
    Bases = {b1, b2, b3}
    Capsules = {"fits", "fitsToo"}
    MaxLives = 3
    RegionSize <- MCRegionSize
    SmramSize = 1
    CapsuleSize <- MCCapsuleSize
    HeaderLength <- MCHeaderLength
    Commands = {"GetRandom"}
    AnswerLength <- MCAnswerLength
    Buffers = {1, 2}
    MaxCommands = 1
    Flashes <- MCFlashes
    Refusals <- MCRefusals
SYMMETRY Symmetry
INVARIANTS
    CoreIsFirst
    VolumesAreServed
    AppliedIsStaged
    StagedIsApplied
    ResponseIsOwn
PROPERTY
    PowerOffIsOrderly
CHECK_DEADLOCK FALSE
