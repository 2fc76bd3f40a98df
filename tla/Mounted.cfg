\* One object, mounts of three images that other programs may overwrite.
SPECIFICATION Spec
CONSTANTS
    DataBlocks = {"a", "b"}
    End = End
    Unreadable = Unreadable
    Unusable = Unusable
    NoPath = NoPath
    Spellings <- MCSpellings
    Upper <- MCUpper
    Paths = {"one"}
    Images <- MCImages
    Points = {"Z:"}
    BadPoint = "ZZ"
    NoPoint = NoPoint
    Ranges <- MCRanges
    Closed = Closed
    Defaults <- MCDefaults
    Settings <- MCSettings
    MaxHandles = 2
INVARIANTS
    TypeOK
    ReadsAreFaithful
    ListingIsFaithful
PROPERTIES
    HandlesKeepTheirFile
