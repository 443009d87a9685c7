SPECIFICATION Spec
CONSTANTS
    Null = Null
    Choose = Choose
    r1 = r1
    r2 = r2
    r3 = r3
    MaximumSwi = 3
    MainCommand = {Null, 0, 1, 2, 3}
    EventCommand = {Null}
    MainData = {Null, 1, 2}
    EventData = {Null}
    NoData = 255
    Record = {r1, r2, r3}
INVARIANT WalkIsLive
INVARIANT HandlerSeesItsCall
INVARIANT ServedUnlessDisturbed
