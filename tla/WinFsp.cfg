\* A runtime, or two adapters sharing two filesystems; WinFsp may fail any call.
SPECIFICATION Spec
CONSTANTS
    Adapters = {"a", "b"}
    Filesystems = {"f", "g"}
    Own = "a"
    OwnFilesystem = "f"
    Points = {"z:", "Z:", "Y:"}
    Upper <- MCUpper
    BadPoint = "ZZ"
    NoPoint = ""
    Handles = {"v1", "v2", "v3"}
    None = "null"
    Faults = {"image", "load", "symbol", "create", "mount", "dispatch"}
INVARIANTS
    StagesAgree
    VolumesAccountedFor
    RuntimeAgrees
PROPERTIES
    FailedStartUndone
