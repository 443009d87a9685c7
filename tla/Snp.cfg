SPECIFICATION Spec
CONSTANTS
    Interface = {i1, i2}
    Buffer = {x1, x2, x3, x4}
    SNP_TX_BUFFER_INCREASEMENT = 1
    SNP_MAX_TX_BUFFER_NUM = 4
    FilterBit = {unicast}
    Frame = {1, 2}
    InitialMax = 1
    Preempts = FALSE
    Null = Null
INVARIANTS RecycleIsExact InterfacesAreServed
CHECK_DEADLOCK FALSE
