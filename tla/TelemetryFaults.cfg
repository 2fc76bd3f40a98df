\* One sink that is killed and whose removals and renames fail.
SPECIFICATION Spec
CONSTANTS
    Sinks = {s}
    Readers = {r}
    MaxFilesSetting = 2
    MaxBytesSetting = 2
    NotANumber = NotANumber
    Width = 8
    DefaultFiles = 3
    DefaultBytes = 2
    ReaderFiles = 3
    MaxEvents = 9
    Faults <- AllFaults
INVARIANTS
    OnlyOldestLost
    DumpGoesForward
CHECK_DEADLOCK FALSE
