\* Everything may fail: writes, rollbacks, and the process may die anywhere.
SPECIFICATION Spec
CONSTANTS
    N = 3
    BamAt = 2
    D = 2
    TrackOf <- MCTrackOf
    Bases <- MCBases
    NormalBase <- MCNormalBase
    CatalogBase <- MCCatalogBase
    NoBase = "_"
    HostFiles <- FewHostFiles
    HostSize <- MCHostSize
    Unwritten = Unwritten
    Targets <- FewNames
    InitialImages <- MCInitialImages
    NoBackup = NoBackup
    NoWork = NoWork
    Missing = Missing
    Faults = {"read", "write", "rollback", "crash"}
INVARIANTS
    TransactionRestores
    InterruptedSafely
    CountsStayRight
PROPERTIES
    OthersUntouched
