SPECIFICATION ScreenSpec
CONSTANTS
    Nil = Nil
    a1 = a1
    a2 = a2
    a3 = a3
    Gop = {1, 2}
    Addr = {a1, a2, a3}
    Horizontal <- MCHorizontal
    Vertical <- MCVertical
    Header = 1
    Scenarios <- MCScenarios
    CountLimit = 8
INVARIANT BltSeesItsScreen
INVARIANT TlsServesWindows
PROPERTY ScreenCallsReturn
CHECK_DEADLOCK FALSE
