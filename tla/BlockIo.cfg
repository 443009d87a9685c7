SPECIFICATION Spec
CONSTANTS
    VirtualDisks = VirtualDisks
    PhysicalDisks = PhysicalDisks
    SerialPort = SerialPort
    Type = {VirtualDisks, PhysicalDisks, SerialPort}
    OtherType = OtherType
    EnvString <- MCEnvString
    AllPath = AllPath
    EndPath = EndPath
    Data = {x, y}
    Zero = zero
    MaxMedium = 2
    MaxLeak = 1
    Null = Null
INVARIANTS  WrittenIsKept
CONSTRAINT OneIsUsed
CHECK_DEADLOCK FALSE
