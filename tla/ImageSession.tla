---------------------------- MODULE ImageSession ----------------------------
(***************************************************************************)
(* DiskImageSession: the open image, its catalog and free count, and the   *)
(* two caches in front of it, as operators on a session record.  Both      *)
(* read-only front ends (MountedFilesystem, KernelStack) hold one session  *)
(* and use it for every mount they serve.                                  *)
(*                                                                         *)
(* An image maps a BAM sector, a directory sector and data sectors to      *)
(* their contents.  The stream is read at each cache miss, so the image    *)
(* passed to an operator is the file as it is at that moment.              *)
(***************************************************************************)
EXTENDS LruCache, FiniteSets

CONSTANTS
    DataBlocks,   \* data sectors
    End,          \* the link of a file's last sector
    Unreadable,   \* a sector that cannot be read; as a link, a bad link or count
    Unusable,     \* a path with no file on it, or one of the wrong size
    NoPath,       \* no image file is open
    Spellings,    \* file names as callers and the catalog spell them
    Upper         \* [Spellings -> Spellings]: DiskCatalog::ToUpper

ASSUME SessionAssumption ==
    /\ IsFiniteSet(DataBlocks)
    /\ {End, Unreadable} \cap DataBlocks = {} /\ End # Unreadable
    /\ Upper \in [Spellings -> Spellings]

Blocks == {"bam", "dir"} \cup DataBlocks

\* The directory lists files in order; a data sector links to the next.
CatalogFile == [name : Spellings, start : DataBlocks \cup {End}]

\* What the readers find on an image of the right size: a directory, unless
\* they find an error in it, and data sectors with a link and their bytes.
IsImage(img) ==
    /\ img["dir"] = Unreadable \/ img["dir"] \in Seq(CatalogFile)
    /\ LET readable == {b \in DataBlocks : img[b] # Unreadable}
       IN  /\ \A b \in readable : img[b].next \in DataBlocks \cup {End, Unreadable}
           /\ Unreadable \notin Seq({img[b].body : b \in readable})

NewSession(sectorCap, fileCap, maxItem) ==
    [open |-> NoPath, free |-> 0, catalog |-> <<>>,
     sectors |-> <<>>, files |-> <<>>,
     sectorCap |-> sectorCap, fileCap |-> fileCap, maxItem |-> maxItem]

ConfigureCaches(ses, sectorCap, fileCap, maxItem) ==
    [ses EXCEPT !.sectors = SetCapacity(@, sectorCap),
                !.files = SetCapacity(@, fileCap),
                !.sectorCap = Capacity(sectorCap),
                !.fileCap = Capacity(fileCap),
                !.maxItem = maxItem]

-----------------------------------------------------------------------------
\* D64Reader::ReadSector: the sector cache first; a failed read leaves it be.
ReadSector(ses, img, b) ==
    IF b \in Keys(ses.sectors)
    THEN [ses  |-> [ses EXCEPT !.sectors = Touch(@, b)],
          data |-> Cached(ses.sectors, b).data]
    ELSE IF img[b] = Unreadable
    THEN [ses |-> ses, data |-> Unreadable]
    ELSE [ses  |-> [ses EXCEPT !.sectors = Put(@, b, img[b], ses.sectorCap)],
          data |-> img[b]]

\* Mutant: the catalog's lists are not cleared before they are filled.
CatalogAppended(ses, entries) == [ses EXCEPT !.catalog = @ \o entries]

\* DiskCatalog::Build: the lists are cleared, then filled.
CatalogBuilt(ses, entries) == [ses EXCEPT !.catalog = entries]

\* Open.  The caches outlive the image they were filled from.
Open(ses, path, img) ==
    LET bam == ReadSector([ses EXCEPT !.open = path], img, "bam")
        dir == ReadSector([bam.ses EXCEPT !.free = bam.data], img, "dir")
    IN  IF img = Unusable
        THEN [ses |-> [ses EXCEPT !.open = NoPath], ok |-> FALSE]
        ELSE IF bam.data = Unreadable
        THEN [ses |-> bam.ses, ok |-> FALSE]
        ELSE IF dir.data = Unreadable
        THEN [ses |-> CatalogBuilt(dir.ses, <<>>), ok |-> FALSE]
        ELSE [ses |-> CatalogBuilt(dir.ses, dir.data), ok |-> TRUE]

\* FindByWindowsName: the last of the files with the name, case apart.
FindByWindowsName(catalog, name) ==
    LET hits == {i \in DOMAIN catalog : Upper[catalog[i].name] = Upper[name]}
    IN  {catalog[i] : i \in {j \in hits : \A k \in hits : k =< j}}

\* One turn of the loop in FileChainReader::ReadFile.  A sector with a bad link
\* or count is read, and cached, before it is refused.
ReadOn(w, img) ==
    LET r == ReadSector(w.ses, img, w.at)
    IN  IF w.at \in {End, Unreadable} THEN w
        ELSE IF w.at \in w.visited \/ r.data = Unreadable
        THEN [w EXCEPT !.at = Unreadable]
        ELSE [ses     |-> r.ses,
              at      |-> r.data.next,
              visited |-> w.visited \cup {w.at},
              data    |-> Append(w.data, r.data.body)]

\* The loop, and its last turn; of the session only the sector cache changes.
ReadChain(ses, img, start) ==
    LET walk[k \in 0..(Cardinality(DataBlocks) + 1)] ==
            IF k = 0
            THEN [ses |-> ses, at |-> start, visited |-> {}, data |-> <<>>]
            ELSE ReadOn(walk[k - 1], img)
        last == walk[Cardinality(DataBlocks) + 1]
    IN  [ses  |-> [ses EXCEPT !.sectors = last.ses.sectors],
         at   |-> last.at,
         data |-> last.data]

\* Mutant: a longer file is cached up to the limit.
CacheClipped(ses, file, data) ==
    [ses EXCEPT !.files = Put(@, file.name, Truncate(data, ses.maxItem), ses.fileCap)]

\* A file no longer than the limit goes into the file cache.
CacheFile(ses, file, data) ==
    IF Len(data) =< ses.maxItem
    THEN [ses EXCEPT !.files = Put(@, file.name, data, ses.fileCap)]
    ELSE ses

CacheHit(ses, name) ==
    [ses    |-> [ses EXCEPT !.files = Touch(@, name)],
     status |-> "success",
     data   |-> Cached(ses.files, name).data]

ReadFileByCatalogFile(ses, img, file) ==
    LET read == ReadChain(ses, img, file.start)
    IN  IF file.name \in Keys(ses.files) THEN CacheHit(ses, file.name)
        ELSE IF read.at = Unreadable
        THEN [ses |-> read.ses, status |-> "ioError", data |-> <<>>]
        ELSE [ses    |-> CacheFile(read.ses, file, read.data),
              status |-> "success",
              data   |-> read.data]

\* The file cache is asked for the caller's spelling, and filled with the
\* catalog's.  The outcomes, of which there is one.
ReadFileByWindowsName(ses, img, name) ==
    LET file == FindByWindowsName(ses.catalog, name)
    IN  IF name \in Keys(ses.files) THEN {CacheHit(ses, name)}
        ELSE IF file = {}
        THEN {[ses |-> ses, status |-> "fileNotFound", data |-> <<>>]}
        ELSE {ReadFileByCatalogFile(ses, img, f) : f \in file}

-----------------------------------------------------------------------------
\* The caches are never over capacity and hold one entry a key.
CachesWellFormed(ses) ==
    /\ Len(ses.sectors) =< ses.sectorCap /\ Distinct(ses.sectors)
    /\ Len(ses.files) =< ses.fileCap /\ Distinct(ses.files)

\* What a file of an image holds, defined without sessions or caches: the
\* bodies along a chain of distinct sectors, or Unreadable.
ChainsFrom(img, start) ==
    {p \in UNION {[1..k -> DataBlocks] : k \in 1..Cardinality(DataBlocks)} :
        /\ p[1] = start
        /\ \A i, j \in DOMAIN p : p[i] = p[j] => i = j
        /\ \A i \in DOMAIN p : img[p[i]] # Unreadable
        /\ \A i \in DOMAIN p :
              img[p[i]].next = IF i = Len(p) THEN End ELSE p[i + 1]}

Contents(img, start) ==
    CASE start = End -> <<>>
      [] start # End /\ ChainsFrom(img, start) = {} -> Unreadable
      [] OTHER -> LET p == CHOOSE p \in ChainsFrom(img, start) : TRUE
                  IN  [i \in DOMAIN p |-> img[p[i]].body]
=============================================================================
