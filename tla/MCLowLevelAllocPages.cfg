CONSTANTS
    WordSize = 4096
    HeaderSize = 32
    NextOffset = 40
    PointerSize = 8
    MaxLevel = 4
    Blocks <- MCBlocks
    SizeOf <- MCSizeOf
    NewPages = 2048
    Requests <- MCRequests
    PageSize = 64
    MinSizes <- MCMinSizes
SPECIFICATION Spec
CHECK_DEADLOCK FALSE
INVARIANT NewPagesReachTheList
