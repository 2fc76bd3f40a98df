\* One sink, no faults; the log is cleared and dumped meanwhile.
SPECIFICATION FairSpec
CONSTANTS
    Sinks = {s}
    Readers = {r}
    MaxFilesSetting = 2
    MaxBytesSetting = 2
    NotANumber = NotANumber
    Width = 8
    DefaultFiles = 3
    DefaultBytes = 2
    ReaderFiles = 2
    MaxEvents = 9
    Faults = {}
INVARIANT DumpIsComplete
PROPERTIES
    ImplementsRetainedLog
    EmitReturns
CHECK_DEADLOCK FALSE
