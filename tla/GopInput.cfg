SPECIFICATION NotifySpec
CONSTANTS
    MAX_Q = 2
    MaxTyped = 2
    Record = {r1, r2}
    NotifyList = NotifyList
    Null = Null
    KeyData <- MCKeyData
    Notification <- MCNotification
    CallbackChanges = "quiet"
 
PROPERTY SignalIsKept
PROPERTY CallbacksAreCalled
INVARIANT WalkIsComplete
