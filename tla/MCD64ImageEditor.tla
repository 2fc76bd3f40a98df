-------------------------- MODULE MCD64ImageEditor --------------------------
(* Small images for TLC: file sectors on both sides of track 18, two slots.*)
EXTENDS D64ImageEditor

MCTrackOf == [s \in 1..N |-> IF s =< BamAt THEN 17 ELSE 19]

\* The stored bytes of "MY GAME" come back from the editor as "MY_GAME".
MCBases == {"HELLO", "MY GAME", "MY_GAME", "_"}
MCNormalBase == [b \in MCBases |-> IF b = "MY GAME" THEN "MY_GAME" ELSE b]
MCCatalogBase == [b \in MCBases |-> b]

MCHostFiles == {"empty", "full", "two"}
FewHostFiles == {"two"}
MCHostSize == [h \in HostFiles |->
    CASE h = "empty" -> 0 [] h = "full" -> 254 [] h = "two" -> 300]

PlainNames == {[base |-> "HELLO", ext |-> "PRG"], [base |-> "HELLO", ext |-> "SEQ"]}
\* The file of OneFile can be deleted, and its sectors written the other way.
FewNames ==
    {[base |-> "HELLO", ext |-> "PRG"], [base |-> "MY_GAME", ext |-> "PRG"]}
AliasedNames ==
    {[base |-> "MY GAME", ext |-> "PRG"], [base |-> "MY_GAME", ext |-> "PRG"],
     [base |-> "HELLO", ext |-> "TXT"], [base |-> "HELLO", ext |-> ""]}
DelNames == {[base |-> "HELLO", ext |-> "PRG"], [base |-> "HELLO", ext |-> "DEL"]}

BlankSector == [next |-> 0, count |-> 0, payload |-> Unwritten]
Blank ==
    [dir |-> [d \in Slots |-> ClearedEntry],
     sec |-> [s \in FileSectors |-> BlankSector],
     bam |-> CorrectedCounts([free  |-> [s \in FileSectors |-> TRUE],
                              count |-> [t \in Tracks |-> 0]])]
\* As the test corpus makes them: the bits are right, the counts are not.
WrongCounts == [Blank EXCEPT !.bam.count = [t \in Tracks |-> IF t = 17 THEN 0 ELSE 255]]
\* One file of two sectors, stored by a Commodore under a name with a space.
OneFile ==
    [dir |-> [Blank.dir EXCEPT ![1] = [type |-> 130, base |-> "MY GAME", start |-> 2]],
     sec |-> [Blank.sec EXCEPT ![2].next = 1, ![1].count = 40],
     bam |-> MarkSectorUsed(MarkSectorUsed(Blank.bam, 1), 2)]

MCInitialImages == {Blank, WrongCounts, OneFile}
=============================================================================
