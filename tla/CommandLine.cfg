SPECIFICATION MCSpec
CONSTANTS
    SizeWidth = 16
    MaxParts = 3
    MaxLines = 5
    Tails = {0, 1, 3}
    Limits = {0, 1, 2, 10}
    Offsets = {0, 1, 4, 15}
    Predicates = {pred1, pred2}
    Malformed = bad
    MaxTokens = 9
    MaxTyped = 6
    NameBytes = 3
    Unnamed <- MCUnnamed
    Typed <- MCTyped
    MaxText = 4
    DataBlocks <- MCDataBlocks
    Spellings <- MCSpellings
    Upper <- MCUpper
    Disks <- MCDisks
    Caches <- MCCaches
    Faults = {"mkdir", "open", "write"}
    End = End
    Unreadable = Unreadable
    Unusable = Unusable
    NoPath = NoPath
    Absent = Absent
    Half = Half
INVARIANTS
    PagesCover
    ParsesTheGrammar
    TextComesBack
    NamesAgree
    ExtractsWhole

    
\* Every one of them comes to an end.
CHECK_DEADLOCK FALSE
