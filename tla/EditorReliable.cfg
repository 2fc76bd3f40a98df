\* Reads may fail; writes succeed and the process lives.
SPECIFICATION FairSpec
CONSTANTS
    N = 4
    BamAt = 2
    D = 2
    TrackOf <- MCTrackOf
    Bases <- MCBases
    NormalBase <- MCNormalBase
    CatalogBase <- MCCatalogBase
    NoBase = "_"
    HostFiles <- MCHostFiles
    HostSize <- MCHostSize
    Unwritten = Unwritten
    Targets <- AliasedNames
    InitialImages <- MCInitialImages
    NoBackup = NoBackup
    NoWork = NoWork
    Missing = Missing
    Faults = {"read"}
INVARIANTS
    SoundAtRest
    SpaceAccounted
PROPERTIES
    ImplementsAtomicVolume
    CallsReturn
