SPECIFICATION UpdateSpec
CONSTANTS
    Image <- MCImage
    Size = 8
    Shipped <- MCShipped
    Default = 1
    ErasedCell = ErasedCell
    NoIndex = NoIndex
INVARIANTS InfoIsTrue LoadedIsStored OthersKept StaysInside
