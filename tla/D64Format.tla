----------------------------- MODULE D64Format -----------------------------
(***************************************************************************)
(* What a .D64 image holds and how the program reads it: the file sectors  *)
(* and their link bytes, the BAM, the directory slots, and the two ways    *)
(* the directory is interpreted -- by the editor (D64ImageEditor) and by   *)
(* the read side (DirectoryReader, DiskCatalog, FileChainReader).          *)
(*                                                                         *)
(* File sectors are numbered 1..N in the order in which AddFile scans      *)
(* tracks 1..35 for a free sector.  The two sectors of track 18 that hold  *)
(* the BAM and the directory are not among them: every image considered    *)
(* here marks them used, and no file chain runs through them.  The         *)
(* directory is its chain of sectors flattened into slots 1..D; the        *)
(* program never extends or relinks that chain.                            *)
(***************************************************************************)
EXTENDS Integers, FiniteSets

CONSTANTS
    N,             \* number of file sectors
    BamAt,         \* file sectors stored before track 18 in the image file
    TrackOf,       \* [1..N -> track]: the track of each file sector
    D,             \* number of directory slots
    Bases,         \* base names, as upper-cased spellings
    NormalBase,    \* [Bases -> Bases]: D64ImageEditor::NormalizeBaseName
    CatalogBase,   \* [Bases -> Bases]: PETSCII to UTF-8, then sanitized
    NoBase,        \* the sixteen zero bytes of a cleared slot
    HostFiles,     \* files of the host that can be imported
    HostSize,      \* [HostFiles -> Nat]: their sizes in bytes
    Unwritten      \* payload of a sector that no import has written

ASSUME FormatAssumption ==
    /\ N \in Nat /\ D \in Nat /\ BamAt \in 0..N
    /\ TrackOf \in [1..N -> Nat]
    /\ NoBase \in Bases
    /\ NormalBase \in [Bases -> Bases]
    /\ CatalogBase \in [Bases -> Bases]
    /\ \A b \in Bases : NormalBase[NormalBase[b]] = NormalBase[b]
    /\ HostSize \in [HostFiles -> Nat]

FileSectors == 1..N
Slots == 1..D
Tracks == {TrackOf[s] : s \in FileSectors}
Bytes == 0..255

(***************************************************************************)
(* Images.  A sector's first two bytes are the next track and sector of    *)
(* the chain (next, 0 at the end of the file) or, in the last sector, the  *)
(* index one past its last byte (count).  Its payload is which 254-byte    *)
(* piece of which host file it holds.  A directory entry keeps the whole   *)
(* type byte: bit 7 says the file is closed, bits 0-2 are its kind.        *)
(***************************************************************************)
Payloads == (HostFiles \X Nat) \cup {Unwritten}
Sector == [next : 0..N, count : Bytes, payload : Payloads]
Entry == [type : Bytes, base : Bases, start : 0..N]
Bam == [free : [FileSectors -> BOOLEAN], count : [Tracks -> Bytes]]
Image == [dir : [Slots -> Entry], sec : [FileSectors -> Sector], bam : Bam]

ClearedEntry == [type |-> 0, base |-> NoBase, start |-> 0]

Least(S) == {x \in S : \A y \in S : x =< y}
Rank(x, S) == Cardinality({y \in S : y < x})

(***************************************************************************)
(* Names.  ToUpper is applied to both sides of every comparison, so a      *)
(* spelling stands for its upper-cased form.                               *)
(***************************************************************************)
Extensions == {"", "DEL", "SEQ", "PRG", "USR", "REL", "TXT"}
Names == [base : Bases, ext : Extensions]

ParseWindowsName(name) == name.ext # ""

ExtensionToFileType(ext) ==
    CASE ext = "DEL" -> 0
      [] ext = "SEQ" -> 1
      [] ext = "USR" -> 3
      [] ext = "REL" -> 4
      [] OTHER -> 2

FileTypeToExtension(type) ==
    CASE type % 8 = 0 -> "DEL"
      [] type % 8 = 1 -> "SEQ"
      [] type % 8 = 3 -> "USR"
      [] type % 8 = 4 -> "REL"
      [] OTHER -> "PRG"

(***************************************************************************)
(* The editor's view of the directory: a slot whose kind bits are zero is  *)
(* free, whatever the rest of its type byte says.                          *)
(***************************************************************************)
IsLive(e) == e.type % 8 # 0

DirectoryEntryToWindowsName(e) ==
    [base |-> NormalBase[e.base], ext |-> FileTypeToExtension(e.type)]

LiveSlots(img) == {d \in Slots : IsLive(img.dir[d])}

\* Mutant: the type byte is not looked at.
FirstDirectoryEntry(img) == Least(Slots)

FindFreeDirectoryEntry(img) == Least(Slots \ LiveSlots(img))
FindEntryByName(img, name) ==
    Least({d \in LiveSlots(img) :
              DirectoryEntryToWindowsName(img.dir[d]) = name})

(***************************************************************************)
(* Chains.  The sectors CollectFileChain walks from s are those in every   *)
(* set that holds s and is closed under the links; the walk comes back to  *)
(* a sector it has visited when none of them ends the file.                *)
(***************************************************************************)
ClosedFrom(sec, s) ==
    {S \in SUBSET FileSectors :
        s \in S /\ \A t \in S : sec[t].next # 0 => sec[t].next \in S}

Chain(img, s) ==
    LET closed == ClosedFrom(img.sec, s)
    IN  IF s = 0 THEN {} ELSE {t \in FileSectors : \A S \in closed : t \in S}

ChainLoops(img, s) ==
    s # 0 /\ \A t \in Chain(img, s) : img.sec[t].next # 0

\* The sectors ScanUsedSectorsFromDirectory collects, and when it fails.
ScanUsedSectors(img) ==
    UNION {Chain(img, img.dir[d].start) : d \in LiveSlots(img)}
ScanFails(img) ==
    \E d \in LiveSlots(img) : ChainLoops(img, img.dir[d].start)

(***************************************************************************)
(* The BAM: one bit per sector and one free count per track, kept apart.   *)
(***************************************************************************)
\* Mutant: the bit of the next sector is tested.
FreeSectorsShifted(bam) == {s \in FileSectors : bam.free[(s % N) + 1]}
FreeSectors(bam) == {s \in FileSectors : bam.free[s]}
FreeOnTrack(bam, t) == {s \in FreeSectors(bam) : TrackOf[s] = t}

MarkSectorUsed(bam, s) ==
    IF ~ bam.free[s] THEN bam
    ELSE [bam EXCEPT !.free[s] = FALSE,
                     !.count[TrackOf[s]] = IF @ > 0 THEN @ - 1 ELSE 0]

\* Mutant: only the first sector of the chain is freed.
MarkFirstSectorFree(bam, S) ==
    [bam EXCEPT !.free = [s \in FileSectors |-> @[s] \/ s \in Least(S)]]

\* Mutant: the count goes up by one for every sector, free already or not.
MarkSectorsCounted(bam, S) ==
    [free  |-> [s \in FileSectors |-> bam.free[s] \/ s \in S],
     count |-> [t \in Tracks |->
        (bam.count[t] + Cardinality({s \in S : TrackOf[s] = t})) % 256]]

\* MarkSectorFree on every sector of S; each count is a byte and wraps.
MarkSectorsFree(bam, S) ==
    [free  |-> [s \in FileSectors |-> bam.free[s] \/ s \in S],
     count |-> [t \in Tracks |->
        (bam.count[t]
           + Cardinality({s \in S : TrackOf[s] = t /\ ~ bam.free[s]})) % 256]]

\* The free counts VerifyBamConsistency writes back.
CorrectedCounts(bam) ==
    [bam EXCEPT !.count = [t \in Tracks |->
        Cardinality(FreeOnTrack(bam, t)) % 256]]

(***************************************************************************)
(* The read side: which entries DirectoryReader lists, the slot DiskCatalog*)
(* resolves a name to (the last one, when several have the name), and what *)
(* FileChainReader makes of a chain.                                       *)
(***************************************************************************)
IsListed(e) == e.type % 16 # 0 /\ e.type >= 128 /\ e.type % 8 =< 4

CatalogName(e) ==
    [base |-> CatalogBase[e.base], ext |-> FileTypeToExtension(e.type)]

FindByWindowsName(img, name) ==
    LET hits == {d \in Slots :
                    IsListed(img.dir[d]) /\ CatalogName(img.dir[d]) = name}
    IN  {d \in hits : \A e \in hits : e =< d}

\* The sector reached from s after k links.
Hop(sec, s) ==
    LET hop[k \in 0..N] == IF k = 0 THEN s ELSE sec[hop[k-1]].next
    IN  hop

ChainLength(img, s) == Cardinality(Chain(img, s))
Pieces(img, s) ==
    LET hop == Hop(img.sec, s)
    IN  [k \in 0..(ChainLength(img, s) - 1) |-> img.sec[hop[k]].payload]
LastCount(img, s) == img.sec[Hop(img.sec, s)[ChainLength(img, s) - 1]].count

ReadFails(img, s) ==
    /\ s # 0
    /\ ChainLoops(img, s) \/ LastCount(img, s) < 2

FileData(img, s) ==
    [pieces |-> Pieces(img, s),
     tail   |-> IF s = 0 THEN 0 ELSE LastCount(img, s) - 2]

(***************************************************************************)
(* Importing: how many blocks a host file takes, the bytes of its last     *)
(* block, and the count byte AddFile stores for it, truncated to 8 bits.   *)
(***************************************************************************)
BlocksNeeded(h) == IF HostSize[h] = 0 THEN 1 ELSE (HostSize[h] + 253) \div 254
LastCopySize(h) == HostSize[h] - 254 * (BlocksNeeded(h) - 1)
CountByte(h) == (2 + LastCopySize(h)) % 256

HostPieces(h) == [k \in 0..(BlocksNeeded(h) - 1) |-> <<h, k>>]
HostData(h) == [pieces |-> HostPieces(h), tail |-> LastCopySize(h)]
=============================================================================
