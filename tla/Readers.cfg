SPECIFICATION MCSpec
CONSTANTS
    Places <- MCPlaces
    Payload = {x, y}
    Zeroes = Zeroes
    Sectors = {s1, s2, s3}
    First = s1
    End = End
    Bad = Bad
    Guard = 2
    Bases = {"A", "B"}
    \* Empty; a DEL file as the reader lists it (0x88); a PRG, closed and open.
    Types = {0, 136, 130, 2}
INVARIANTS
    ReadsReturnLastWrite
    LoadIsRight
    ReaderAndEditorAgree
    LookupsAreRight
PROPERTIES
    CallsEnd
\* A call returns, and that is all.
CHECK_DEADLOCK FALSE
