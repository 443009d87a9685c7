SPECIFICATION Spec
CONSTANTS
    SERIAL_MAX_BUFFER_SIZE = 2
    Byte = {b1, b2}
    mBaudRateCurrentSupport = {50, 9600}
    SERIAL_PORT_MAX_BAUD_RATE = 9700
    DefaultBaud = 9600
    BaudAsked = {0, 60, 9600, 9800}
    DefaultFrame = f8n1
    BadFrame = f5
    FrameAsked = {Null, f8n1, f5}
    DefaultWait = w1
    BadWait = w9
    WaitAsked = {Null, w2}
    FlowAsked = {Null, "hardware"}
    ControlAsked <- Controls
    Leftover <- Leftovers
    StatusBits = {}
    Buffers <- Written
    Null = Null
    b1 = b1
    b2 = b2
VIEW Seen
CONSTRAINT Apart
INVARIANTS SettingsAgree PortIsOwned
PROPERTIES LoopbackIsFifo
CHECK_DEADLOCK FALSE
