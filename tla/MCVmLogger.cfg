SPECIFICATION LogSpec
CONSTANTS
    MaxTime = 6
    MaxSize = 2000
    Window = 1
    Skew = 2
    LogSlots = 2
    MaxEntries = 4
CHECK_DEADLOCK FALSE
INVARIANTS
    FileSorted
    WrittenOnce
