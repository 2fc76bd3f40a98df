\* One process mounts, two unmount, one lists; any may be killed.
SPECIFICATION Spec
CONSTANTS
    m = m
    r = r
    u1 = u1
    u2 = u2
    Procs = {m, u1, u2, r}
    Mounters = {m}
    Unmounters = {u1, u2}
    Readers = {r}
    Images <- MCImages
    Hole = Hole
    None = None
    Chunks <- MCChunks
    Faults = {"crash", "write"}
SYMMETRY SameUnmounters
INVARIANTS
    StateComplete
PROPERTIES
    RemovesWhatItRead
