SPECIFICATION Spec
CONSTANTS
    TimerIds = {1, 2}
    Handlers = {h1}
    NULL = NULL
    TPL_APPLICATION = TPL_APPLICATION
    TPL_HIGH_LEVEL = TPL_HIGH_LEVEL
    RequestedPeriods = {0}
    DEFAULT_TIMER_TICK_DURATION = 8
    TIMER_MAXIMUM_VALUE = 31
    HundredNsPerMs = 4
    Uint32 = 32
    TickWrap = 4
    MaxDelta = 3
    MaxClock = 4
    Uses = {"stop"}
INVARIANTS LockNeverFrozen FirmwareTimeNotAhead StoppedIsSilent
PROPERTIES CallsReturn
