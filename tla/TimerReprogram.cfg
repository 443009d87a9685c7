SPECIFICATION Spec
CONSTANTS
    TimerIds = {1, 2}
    Handlers = {h1, h2}
    NULL = NULL
    TPL_APPLICATION = TPL_APPLICATION
    TPL_HIGH_LEVEL = TPL_HIGH_LEVEL
    RequestedPeriods = {0, 12}
    DEFAULT_TIMER_TICK_DURATION = 8
    TIMER_MAXIMUM_VALUE = 31
    HundredNsPerMs = 4
    Uint32 = 32
    TickWrap = 4
    MaxDelta = 3
    MaxClock = 0
    Uses = {"stop", "reprogram"}
INVARIANTS HandlerIsAnInterrupt SuccessMeansChanged
PROPERTIES BehavesAsInterrupt
