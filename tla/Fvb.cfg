SPECIFICATION BuildSpec
CONSTANTS
    Nil = Nil
    Volume <- MCVolume
    Base <- MCBase
    BlockMap <- MCBlockMap
    Capability <- MCCapability
    Initial <- MCInitial
    Flash <- MCFlash
    Byte = {0, 255}
    Erased = 255
    LbaLimit = 1000
    FarLba = {}
    MaxBytes <- MCMaxBytes
    MaxRanges <- MCMaxRanges
    EventCalls = {"write", "erase"}
INVARIANT InvalidChangesNothing
PROPERTY ImplementsBlockDevice
