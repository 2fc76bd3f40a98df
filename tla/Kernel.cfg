\* A client of each layer, the driver failing any call, images overwritten.
SPECIFICATION Spec
CONSTANTS
    DataBlocks = {"a", "b"}
    End = End
    Unreadable = Unreadable
    Unusable = Unusable
    NoPath = NoPath
    Spellings <- MCSpellings
    Upper <- MCUpper
    Paths = {"one"}
    Images <- MCImages
    Defaults <- MCDefaults
    MaxHandles = 1
    Handles = {"h1", "h2"}
    NoHandle = NoHandle
    DeviceFaults = {"open", "ioctl", "close"}
    Points = {"Y:", "Z:"}
    BadPoint = "ZZ"
    NoPoint = ""
INVARIANTS
    TypeOK
    LayersAgree
    NoHandleLeak
    OnlyGranted
    OpenHandlesResolve
