\* Two mounts of one backend, whatever was mounted before.
SPECIFICATION Spec
CONSTANTS
    DataBlocks = {"a", "b"}
    End = End
    Unreadable = Unreadable
    Unusable = Unusable
    NoPath = NoPath
    Spellings <- MCSpellings
    Upper <- MCUpper
    Paths = {"one", "two"}
    Images <- MCImages
    Defaults <- MCDefaults
    MaxHandles = 1
    Handles = {"h1", "h2"}
    NoHandle = NoHandle
    DeviceFaults = {"open", "ioctl", "close"}
    Points = {"Y:", "Z:"}
    BadPoint = "ZZ"
    NoPoint = ""
PROPERTY
    NoStaleState
