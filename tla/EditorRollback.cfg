\* Writes may fail, nothing else.
SPECIFICATION Spec
CONSTANTS
    N = 4
    BamAt = 2
    D = 2
    TrackOf <- MCTrackOf
    Bases <- MCBases
    NormalBase <- MCNormalBase
    CatalogBase <- MCCatalogBase
    NoBase = "_"
    HostFiles <- MCHostFiles
    HostSize <- MCHostSize
    Unwritten = Unwritten
    Targets <- PlainNames
    InitialImages <- MCInitialImages
    NoBackup = NoBackup
    NoWork = NoWork
    Missing = Missing
    Faults = {"write"}
PROPERTIES
    RollsBackOnFailure
