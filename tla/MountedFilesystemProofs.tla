---------------------- MODULE MountedFilesystemProofs ----------------------
(***************************************************************************)
(* What the mounted volume promises, and extract with it, for every set of *)
(* images, names and ranges and every capacity of the caches: each reads   *)
(* with one session.                                                       *)
(***************************************************************************)
EXTENDS MountedFilesystem, ExtractCommand, ImageSessionProofs

-----------------------------------------------------------------------------
(* A session that has read from the images I, and no others.               *)

\* A cached file is the one of that name, if there is only one image it can
\* have been read from.
FileEntry(I) ==
    {e \in [key : Spellings, data : Seq(AllBodies(Images))] :
        /\ I # {}
        /\ \A img \in I : I = {img} => e.data \in FileIn(img, e.key) \ {Unreadable}}

WellSeen(s, I) == Well(s, I, FileEntry(I))

\* More images, more that the caches may hold.
LEMMA MoreSeen ==
    ASSUME NEW I \in SUBSET Images, NEW J \in SUBSET Images, I \subseteq J,
           NEW s, WellSeen(s, I)
    PROVE  WellSeen(s, J)
<1>1. FileEntry(I) \subseteq FileEntry(J)
    <2> SUFFICES ASSUME NEW e \in FileEntry(I), NEW img, J = {img}
                 PROVE  e.data \in FileIn(img, e.key) \ {Unreadable}
        BY DEF FileEntry
    <2>1. I = {img}
        BY DEF FileEntry
    <2> QED
        BY <2>1 DEF FileEntry
<1> QED
    BY <1>1, MoreImages DEF WellSeen

\* What one read of a named file may answer.
Answered(r, s, I, img, name) ==
    /\ WellSeen(r.ses, I) /\ SameVolume(r.ses, s)
    /\ r.status \in {"success", "ioError", "fileNotFound"}
    /\ I = {img} =>
          /\ r.status = "success" => r.data \in FileIn(img, name) \ {Unreadable}
          /\ r.status = "ioError" => FileIn(img, name) = {Unreadable}
          /\ r.status = "fileNotFound" => FileIn(img, name) = {}

LEMMA ReadFoundIsRight ==
    ASSUME NEW I \in SUBSET Images, NEW s, WellSeen(s, I), CatalogSeen(s, I),
           NEW img \in I, NEW name \in Spellings,
           NEW f \in FindByWindowsName(s.catalog, name)
    PROVE  /\ Answered(ReadFileByCatalogFile(s, img, f), s, I, img, name)
           /\ ReadFileByCatalogFile(s, img, f).status # "fileNotFound"
<1> DEFINE r == ReadFileByCatalogFile(s, img, f)
<1>1. /\ f \in CatalogFile
      /\ FindByWindowsName(s.catalog, name) = {f}
      /\ FindByWindowsName(s.catalog, f.name) = {f}
    BY NamesMeanOneFile DEF WellSeen, Well, Session
<1>2. f.name \in Spellings
    BY <1>1 DEF CatalogFile
<1>3. ASSUME I = {img}
      PROVE  /\ FileIn(img, name) = {Contents(img, f.start)}
             /\ FileIn(img, f.name) = {Contents(img, f.start)}
    <2>1. s.catalog = img["dir"]
        BY <1>3 DEF CatalogSeen
    <2> QED
        BY <1>1, <2>1 DEF FileIn
<1>4. Cacheable(f, I, FileEntry(I), img)
    <2> SUFFICES ASSUME NEW data, ReadAs(data, I, img, f.start)
                 PROVE  [key |-> f.name, data |-> data] \in FileEntry(I)
        BY DEF Cacheable
    <2>1. data \in Seq(AllBodies(Images))
        <3>1. AllBodies(I) \subseteq AllBodies(Images)
            BY DEF AllBodies
        <3> QED
            BY <3>1 DEF ReadAs
    <2>2. \A g \in I : I = {g} => data \in FileIn(g, f.name) \ {Unreadable}
        BY <1>3 DEF ReadAs
    <2> QED
        BY <1>2, <2>1, <2>2 DEF FileEntry
<1>5. \A g \in I : IsImage(g)
    BY FilesystemAssumption
<1>6. /\ Well(r.ses, I, FileEntry(I)) /\ SameVolume(r.ses, s)
      /\ \/ FromCache(r, FileEntry(I), f.name)
         \/ r.status = "success" /\ ReadAs(r.data, I, img, f.start)
         \/ /\ r.status = "ioError"
            /\ I = {img} => Contents(img, f.start) = Unreadable
    BY <1>1, <1>4, <1>5, ReadFileIsRight DEF WellSeen
<1> HIDE DEF r
<1>7. CASE FromCache(r, FileEntry(I), f.name)
    <2>1. r.status = "success" /\ (I = {img} => r.data \in FileIn(img, f.name) \ {Unreadable})
        BY <1>7 DEF FromCache, FileEntry
    <2>2. Answered(r, s, I, img, name) /\ r.status # "fileNotFound"
        BY <1>3, <1>6, <2>1 DEF Answered, WellSeen
    <2> QED
        BY <2>2 DEF r
<1>8. CASE r.status = "success" /\ ReadAs(r.data, I, img, f.start)
    <2>1. Answered(r, s, I, img, name) /\ r.status # "fileNotFound"
        BY <1>3, <1>6, <1>8 DEF Answered, WellSeen, ReadAs
    <2> QED
        BY <2>1 DEF r
<1>9. CASE r.status = "ioError" /\ (I = {img} => Contents(img, f.start) = Unreadable)
    <2>1. Answered(r, s, I, img, name) /\ r.status # "fileNotFound"
        BY <1>3, <1>6, <1>9 DEF Answered, WellSeen
    <2> QED
        BY <2>1 DEF r
<1> QED
    BY <1>6, <1>7, <1>8, <1>9

LEMMA ReadByNameIsRight ==
    ASSUME NEW I \in SUBSET Images, NEW s, WellSeen(s, I), CatalogSeen(s, I),
           NEW img \in I, NEW name \in Spellings,
           NEW r \in ReadFileByWindowsName(s, img, name)
    PROVE  Answered(r, s, I, img, name)
<1> DEFINE file == FindByWindowsName(s.catalog, name)
<1>1. CASE name \in Keys(s.files)
    <2>1. r = CacheHit(s, name)
        BY <1>1 DEF ReadFileByWindowsName
    <2>2. /\ Well(r.ses, I, FileEntry(I)) /\ SameVolume(r.ses, s)
          /\ FromCache(r, FileEntry(I), name)
        BY <1>1, <2>1, HitIsRight DEF WellSeen
    <2>3. r.status = "success" /\ (I = {img} => r.data \in FileIn(img, name) \ {Unreadable})
        BY <2>2 DEF FromCache, FileEntry
    <2> QED
        BY <2>2, <2>3 DEF Answered, WellSeen
<1>2. CASE name \notin Keys(s.files) /\ file = {}
    <2>1. r = [ses |-> s, status |-> "fileNotFound", data |-> <<>>]
        BY <1>2 DEF ReadFileByWindowsName
    <2>2. I = {img} => FileIn(img, name) = {}
        BY <1>2 DEF CatalogSeen, FileIn
    <2> QED
        BY <2>1, <2>2 DEF Answered, SameVolume
<1>3. CASE name \notin Keys(s.files) /\ file # {}
    <2>1. PICK f \in file : r = ReadFileByCatalogFile(s, img, f)
        BY <1>3 DEF ReadFileByWindowsName
    <2> QED
        BY <2>1, ReadFoundIsRight
<1> QED
    BY <1>1, <1>2, <1>3

-----------------------------------------------------------------------------
(* The mounted volume.                                                     *)

Types ==
    /\ disk \in [Paths -> Images \cup {Unusable}]
    /\ mounted \in BOOLEAN
    /\ path \in Paths \cup {NoPath}
    /\ point \in Points \cup {BadPoint, NoPoint}
    /\ ses.open \in Paths \cup {NoPath}
    /\ handles \in Seq(Spellings \cup {Closed})
    /\ seen \in SUBSET Images

\* What is mounted is the image of one of the files seen, open still.
MountedSeen ==
    mounted =>
        /\ path \in Paths /\ point \in Points /\ ses.open = path
        /\ disk[path] \in seen
        /\ CatalogSeen(ses, seen) /\ FreeSeen(ses, seen)

\* If only one image was ever seen, the handles name files of it.
HandlesListed ==
    /\ seen = {} => handles = <<>>
    /\ \A img \in seen :
          seen = {img} =>
              \A h \in DOMAIN handles :
                  handles[h] # Closed => FileIn(img, handles[h]) # {}

Holds == Types /\ WellSeen(ses, seen) /\ MountedSeen /\ HandlesListed

IInv == Holds /\ ReadsAreFaithful

LEMMA InitIInv == Init => IInv
<1> SUFFICES ASSUME Init PROVE IInv
    OBVIOUS
<1>1. Defaults \in Nat \X Nat \X Nat
    BY FilesystemAssumption
<1>2. WellSeen(ses, seen) /\ ses.open = NoPath
    BY <1>1, NewSessionIsRight DEF Init, WellSeen
<1> QED
    <2>1. Types /\ MountedSeen /\ HandlesListed
        <3>1. /\ handles \in Seq(Spellings \cup {Closed}) /\ handles = <<>>
              /\ mounted = FALSE /\ seen = {}
            BY DEF Init
        <3>2. /\ disk \in [Paths -> Images \cup {Unusable}]
              /\ path = NoPath /\ point = NoPoint
            BY DEF Init
        <3> QED
            BY <1>2, <3>1, <3>2 DEF Types, MountedSeen, HandlesListed
    <2>2. ReadsAreFaithful
        BY DEF Init, ReadsAreFaithful
    <2> QED
        BY <1>2, <2>1, <2>2 DEF IInv, Holds

LEMMA MountKeeps ==
    ASSUME IInv, NEW p \in Paths, NEW pt \in Points \cup {BadPoint},
           MountReadOnly(p, pt)
    PROVE  IInv'
<1>1. /\ Types /\ WellSeen(ses, seen) /\ MountedSeen /\ HandlesListed /\ ReadsAreFaithful
      /\ disk' = disk /\ handles' = handles
    BY DEF IInv, Holds, MountReadOnly
<1>2. answer'.op = "mount"
    BY DEF MountReadOnly, Reply
<1>3. ReadsAreFaithful'
    BY <1>2 DEF ReadsAreFaithful
<1>4. CASE mounted
    <2>1. UNCHANGED <<mounted, path, point, ses, seen>>
        BY <1>4 DEF MountReadOnly
    <2> QED
        BY <1>1, <1>3, <2>1 DEF IInv, Holds, Types, MountedSeen, HandlesListed
<1>5. CASE ~ mounted /\ pt = BadPoint
    <2>1. path' = p /\ point' = pt /\ UNCHANGED <<mounted, ses, seen>>
        BY <1>5 DEF MountReadOnly
    <2> QED
        BY <1>1, <1>3, <1>5, <2>1 DEF IInv, Holds, Types, MountedSeen, HandlesListed
<1>6. CASE ~ mounted /\ pt # BadPoint
    <2> DEFINE r == Open(ses, p, disk[p])
    <2>1. /\ path' = p /\ point' = pt /\ ses' = r.ses /\ mounted' = r.ok
          /\ seen' = seen \cup ({disk[p]} \ {Unusable})
        BY <1>6 DEF MountReadOnly
    <2>2. CASE disk[p] = Unusable
        <3>1. r = [ses |-> [ses EXCEPT !.open = NoPath], ok |-> FALSE]
            BY <2>2 DEF Open
        <3> HIDE DEF r
        <3>2. seen' = seen /\ mounted' = FALSE /\ ses' = [ses EXCEPT !.open = NoPath]
            BY <2>1, <2>2, <3>1
        <3>3. WellSeen(ses', seen') /\ ses'.open = NoPath
            BY <1>1, <3>2 DEF WellSeen, Well, Session, CachesWellFormed
        <3> QED
            BY <1>1, <1>3, <1>6, <2>1, <3>2, <3>3 DEF IInv, Holds, Types, MountedSeen, HandlesListed
    <2>3. CASE disk[p] # Unusable
        <3>1. /\ disk[p] \in Images /\ seen' = seen \cup {disk[p]}
              /\ seen' \in SUBSET Images /\ disk[p] \in seen'
            BY <1>1, <2>1, <2>3 DEF Types
        <3>2. WellSeen(ses, seen')
            BY <1>1, <3>1, MoreSeen DEF Types
        <3>3. /\ WellSeen(r.ses, seen') /\ r.ok \in BOOLEAN /\ r.ses.open = p
              /\ r.ok => CatalogSeen(r.ses, seen') /\ FreeSeen(r.ses, seen')
            BY <3>1, <3>2, FilesystemAssumption, OpenIsRight DEF WellSeen
        <3> HIDE DEF r
        <3>4. Types'
            BY <1>1, <1>6, <2>1, <3>1, <3>3 DEF Types
        <3>5. MountedSeen'
            BY <1>1, <1>6, <2>1, <3>1, <3>3 DEF MountedSeen
        <3>6. WellSeen(ses, seen)'
            BY <2>1, <3>3
        <3>7. HandlesListed'
            <4>1. seen' # {}
                BY <3>1
            <4> SUFFICES ASSUME NEW img \in seen', seen' = {img}, NEW h \in DOMAIN handles,
                                handles[h] # Closed
                         PROVE  FileIn(img, handles[h]) # {}
                BY <1>1, <4>1 DEF HandlesListed
            <4>2. seen = {img} \/ seen = {}
                BY <3>1
            <4> QED
                BY <1>1, <4>2 DEF HandlesListed
        <3> QED
            BY <1>3, <3>4, <3>5, <3>6, <3>7 DEF IInv, Holds
    <2> QED
        BY <2>2, <2>3
<1> QED
    BY <1>4, <1>5, <1>6

\* Steps that leave session, mount and files alone.
LEMMA RestKeeps ==
    ASSUME IInv, UNCHANGED <<disk, mounted, path, point, ses, seen>>,
           handles' \in Seq(Spellings \cup {Closed}), HandlesListed',
           answer' = answer \/ answer'.op \notin {"read", "readFile", "info"}
    PROVE  IInv'
<1>1. Holds'
    BY DEF IInv, Holds, Types, MountedSeen
<1>2. ReadsAreFaithful'
    BY DEF IInv, ReadsAreFaithful
<1> QED
    BY <1>1, <1>2 DEF IInv

\* Steps that answer from the session of a mounted image.
LEMMA SessionKeeps ==
    ASSUME Holds, UNCHANGED <<disk, mounted, path, point, handles, seen>>,
           WellSeen(ses', seen), SameVolume(ses', ses)
    PROVE  Holds'
<1>1. Types'
    BY DEF Holds, Types, SameVolume
<1>2. MountedSeen'
    BY DEF Holds, MountedSeen, SameVolume, CatalogSeen, FreeSeen
<1>3. HandlesListed'
    BY DEF Holds, HandlesListed
<1> QED
    BY <1>1, <1>2, <1>3 DEF Holds

\* Of a mounted image, the stream and the catalog.
LEMMA MountedImage ==
    ASSUME Holds, mounted
    PROVE  /\ seen \in SUBSET Images /\ WellSeen(ses, seen) /\ CatalogSeen(ses, seen)
           /\ Current \in seen
  BY DEF Holds, Types, MountedSeen, Current

LEMMA ReadFileKeeps ==
    ASSUME IInv, NEW name \in Spellings, ReadFile(name)
    PROVE  IInv'
<1>1. CASE ~ mounted
    <2>1. /\ UNCHANGED <<disk, mounted, path, point, handles, seen, ses>>
          /\ answer' = [op |-> "readFile", status |-> "notMounted"]
        BY <1>1 DEF ReadFile, Reply
    <2>2. Holds'
        BY <2>1 DEF IInv, Holds, Types, MountedSeen, HandlesListed
    <2>3. ReadsAreFaithful'
        BY <2>1 DEF ReadsAreFaithful
    <2> QED
        BY <2>2, <2>3 DEF IInv
<1>2. CASE mounted
    <2>1. PICK r \in ReadFileByWindowsName(ses, Current, name) :
              /\ ses' = r.ses
              /\ answer' = [op |-> "readFile", name |-> name,
                            status |-> r.status, data |-> r.data]
        BY <1>2 DEF ReadFile
    <2>2. Answered(r, ses, seen, Current, name)
        BY <1>2, <2>1, MountedImage, ReadByNameIsRight DEF IInv
    <2>3. Holds'
        BY <2>1, <2>2, SessionKeeps DEF IInv, ReadFile, Answered
    <2>4. ReadsAreFaithful'
        <3> SUFFICES ASSUME NEW img \in Images, seen' = {img}
                     PROVE  \/ /\ answer'.status = "fileNotFound"
                               /\ FileIn(img, name) = {}
                            \/ /\ answer'.status = "ioError"
                               /\ FileIn(img, name) = {Unreadable}
                            \/ /\ answer'.status = "success"
                               /\ answer'.data \in FileIn(img, name) \ {Unreadable}
            BY <2>1 DEF ReadsAreFaithful
        <3>1. seen = {img} /\ Current = img
            BY <1>2, MountedImage DEF IInv, ReadFile
        <3> QED
            BY <2>1, <2>2, <3>1 DEF Answered
    <2> QED
        BY <2>3, <2>4 DEF IInv
<1> QED
    BY <1>1, <1>2 DEF IInv, Holds, Types

LEMMA GetFileInfoKeeps ==
    ASSUME IInv, NEW name \in Spellings, GetFileInfo(name)
    PROVE  IInv'
<1> DEFINE file == FindByWindowsName(ses.catalog, name)
<1>1. CASE ~ mounted
    <2>1. /\ UNCHANGED <<disk, mounted, path, point, handles, seen, ses>>
          /\ answer' = [op |-> "info", status |-> "notMounted"]
        BY <1>1 DEF GetFileInfo, Reply
    <2>2. Holds'
        BY <2>1 DEF IInv, Holds, Types, MountedSeen, HandlesListed
    <2>3. ReadsAreFaithful'
        BY <2>1 DEF ReadsAreFaithful
    <2> QED
        BY <2>2, <2>3 DEF IInv
<1>2. CASE mounted /\ file = {} /\ UNCHANGED ses
              /\ answer' = [op |-> "info", name |-> name, status |-> "fileNotFound"]
    <2>1. Holds'
        BY <1>2 DEF IInv, Holds, Types, MountedSeen, HandlesListed, GetFileInfo
    <2>2. ReadsAreFaithful'
        <3> SUFFICES ASSUME NEW img \in Images, seen' = {img}
                     PROVE  FileIn(img, name) = {}
            BY <1>2 DEF ReadsAreFaithful
        <3>1. seen = {img} /\ ses.catalog = img["dir"]
            BY <1>2, MountedImage DEF IInv, GetFileInfo, CatalogSeen
        <3> QED
            BY <1>2, <3>1 DEF FileIn
    <2> QED
        BY <2>1, <2>2 DEF IInv
<1>3. ASSUME mounted, NEW f \in file,
             LET r == ReadFileByCatalogFile(ses, Current, f)
             IN  /\ ses' = r.ses
                 /\ answer' = [op |-> "info", name |-> name,
                               status |-> r.status, size |-> Len(r.data)]
      PROVE  IInv'
    <2> DEFINE r == ReadFileByCatalogFile(ses, Current, f)
    <2>1. Answered(r, ses, seen, Current, name) /\ r.status # "fileNotFound"
        BY <1>3, MountedImage, ReadFoundIsRight DEF IInv
    <2>2. /\ ses' = r.ses
          /\ answer' = [op |-> "info", name |-> name,
                        status |-> r.status, size |-> Len(r.data)]
        BY <1>3
    <2> HIDE DEF r
    <2>3. Holds'
        BY <2>1, <2>2, SessionKeeps DEF IInv, GetFileInfo, Answered
    <2>4. ReadsAreFaithful'
        <3> SUFFICES ASSUME NEW img \in Images, seen' = {img}
                     PROVE  \/ /\ answer'.status = "ioError"
                               /\ FileIn(img, name) = {Unreadable}
                            \/ /\ answer'.status = "success"
                               /\ \E data \in FileIn(img, name) \ {Unreadable} :
                                    answer'.size = Len(data)
            BY <2>2 DEF ReadsAreFaithful
        <3>1. seen = {img} /\ Current = img
            BY <1>3, MountedImage DEF IInv, GetFileInfo
        <3> QED
            BY <2>1, <2>2, <3>1 DEF Answered
    <2> QED
        BY <2>3, <2>4 DEF IInv
<1> QED
    BY <1>1, <1>2, <1>3 DEF GetFileInfo, IInv, Holds, Types

LEMMA ReadKeeps ==
    ASSUME IInv, NEW h \in 1..MaxHandles, NEW range \in Ranges, Read(h, range)
    PROVE  IInv'
<1>1. CASE ~ mounted \/ ~ IsValidHandle(h)
    <2>1. /\ UNCHANGED <<disk, mounted, path, point, handles, seen, ses>>
          /\ answer'.op = "read" /\ answer'.status \in {"notMounted", "invalidHandle"}
        BY <1>1 DEF Read, Reply
    <2>2. Holds'
        BY <2>1 DEF IInv, Holds, Types, MountedSeen, HandlesListed
    <2>3. ReadsAreFaithful'
        BY <2>1 DEF ReadsAreFaithful
    <2> QED
        BY <2>2, <2>3 DEF IInv
<1>2. CASE mounted /\ IsValidHandle(h)
    <2> DEFINE name == handles[h]
    <2>1. name \in Spellings
        BY <1>2 DEF IsValidHandle, IInv, Holds, Types
    <2>2. PICK r \in ReadFileByWindowsName(ses, Current, name) :
              /\ ses' = r.ses
              /\ answer' = [op |-> "read", name |-> name, range |-> range,
                            status |-> r.status, data |-> Slice(r.data, range)]
        BY <1>2 DEF Read
    <2> HIDE DEF name
    <2>3. Answered(r, ses, seen, Current, name)
        BY <1>2, <2>1, <2>2, MountedImage, ReadByNameIsRight DEF IInv
    <2>4. Holds'
        BY <2>2, <2>3, SessionKeeps DEF IInv, Read, Answered
    <2>5. ReadsAreFaithful'
        <3>1. seen' = seen
            BY DEF Read
        <3> SUFFICES ASSUME NEW img \in Images, seen = {img}
                     PROVE  \/ /\ answer'.status = "ioError"
                               /\ FileIn(img, name) = {Unreadable}
                            \/ /\ answer'.status = "success"
                               /\ \E data \in FileIn(img, name) \ {Unreadable} :
                                    answer'.data = Slice(data, range)
            BY <2>2, <3>1 DEF ReadsAreFaithful
        <3>2. Current = img
            BY <1>2, MountedImage DEF IInv
        <3>3. FileIn(img, name) # {}
            BY <1>2, <3>1 DEF IInv, Holds, HandlesListed, IsValidHandle, name
        <3> QED
            BY <2>2, <2>3, <3>2, <3>3 DEF Answered
    <2> QED
        BY <2>4, <2>5 DEF IInv
<1> QED
    BY <1>1, <1>2

LEMMA OpenFileKeeps ==
    ASSUME IInv, NEW name \in Spellings, OpenFile(name)
    PROVE  IInv'
<1>1. /\ UNCHANGED <<disk, mounted, path, point, ses, seen>>
      /\ answer'.op = "open"
    BY DEF OpenFile, Reply
<1>2. CASE UNCHANGED handles
    BY <1>1, <1>2, RestKeeps DEF IInv, Holds, Types, HandlesListed
<1>3. ASSUME mounted, NEW f \in FindByWindowsName(ses.catalog, name),
             handles' = Append(handles, f.name)
      PROVE  IInv'
    <2>1. /\ seen \in SUBSET Images /\ WellSeen(ses, seen) /\ CatalogSeen(ses, seen)
          /\ Current \in seen /\ handles \in Seq(Spellings \cup {Closed})
        BY <1>3, MountedImage DEF IInv, Holds, Types
    <2>2. f \in CatalogFile /\ FindByWindowsName(ses.catalog, f.name) = {f}
        BY <1>3, <2>1, NamesMeanOneFile DEF WellSeen, Well, Session
    <2>3. handles' \in Seq(Spellings \cup {Closed})
        BY <1>3, <2>1, <2>2 DEF CatalogFile
    <2>4. HandlesListed'
        <3> SUFFICES ASSUME NEW img \in seen, seen = {img}, NEW h \in DOMAIN handles',
                            handles'[h] # Closed
                     PROVE  FileIn(img, handles'[h]) # {}
            BY <1>1, <2>1 DEF HandlesListed
        <3>1. CASE h \in DOMAIN handles
            <4>1. handles'[h] = handles[h]
                BY <1>3, <2>1, <3>1
            <4> QED
                BY <3>1, <4>1 DEF IInv, Holds, HandlesListed
        <3>2. CASE h \notin DOMAIN handles
            <4>1. handles'[h] = f.name
                BY <1>3, <2>1, <3>2
            <4>2. ses.catalog = img["dir"]
                BY <2>1 DEF CatalogSeen
            <4> QED
                BY <2>2, <4>1, <4>2 DEF FileIn
        <3> QED
            BY <3>1, <3>2
    <2> QED
        BY <1>1, <2>3, <2>4, RestKeeps
<1> QED
    BY <1>2, <1>3 DEF OpenFile, IInv, Holds, Types

LEMMA CloseKeeps ==
    ASSUME IInv, NEW h \in 1..MaxHandles, Close(h)
    PROVE  IInv'
<1>1. /\ UNCHANGED <<disk, mounted, path, point, ses, seen>>
      /\ answer'.op = "close"
    BY DEF Close, Reply
<1>2. CASE UNCHANGED handles
    BY <1>1, <1>2, RestKeeps DEF IInv, Holds, Types, HandlesListed
<1>3. CASE handles' = CloseHandle(h) /\ IsValidHandle(h)
    <2>1. handles \in Seq(Spellings \cup {Closed}) /\ h \in DOMAIN handles
        BY <1>3 DEF IsValidHandle, IInv, Holds, Types
    <2>2. handles' = [handles EXCEPT ![h] = Closed]
        BY <1>3 DEF CloseHandle
    <2>3. /\ handles' \in Seq(Spellings \cup {Closed})
          /\ DOMAIN handles' = DOMAIN handles
          /\ \A i \in DOMAIN handles : handles'[i] \in {handles[i], Closed}
        BY <2>1, <2>2
    <2>4. seen # {}
        BY <2>1 DEF IInv, Holds, HandlesListed
    <2>5. HandlesListed'
        BY <1>1, <2>3, <2>4 DEF IInv, Holds, HandlesListed
    <2> QED
        BY <1>1, <2>3, <2>5, RestKeeps
<1> QED
    BY <1>2, <1>3 DEF Close

LEMMA UnmountKeeps ==
    ASSUME IInv, NEW pt \in Points, Unmount(pt)
    PROVE  IInv'
<1>1. UNCHANGED <<disk, ses, handles, seen>> /\ answer'.op = "unmount"
    BY DEF Unmount, Reply
<1>2. ReadsAreFaithful'
    BY <1>1 DEF ReadsAreFaithful
<1>3. CASE UNCHANGED <<mounted, path, point>>
    BY <1>1, <1>2, <1>3 DEF IInv, Holds, Types, MountedSeen, HandlesListed
<1>4. CASE mounted' = FALSE /\ path' = NoPath /\ point' = NoPoint
    BY <1>1, <1>2, <1>4 DEF IInv, Holds, Types, MountedSeen, HandlesListed
<1> QED
    BY <1>3, <1>4 DEF Unmount

LEMMA ConfigureKeeps ==
    ASSUME IInv, NEW c \in Settings, Configure(c)
    PROVE  IInv'
<1>1. c[1] \in Nat /\ c[2] \in Nat /\ c[3] \in Nat
    BY FilesystemAssumption
<1>2. /\ ses' = ConfigureCaches(ses, c[1], c[2], c[3])
      /\ UNCHANGED <<disk, mounted, path, point, handles, answer, seen>>
    BY DEF Configure
<1>3. WellSeen(ses', seen) /\ SameVolume(ses', ses)
    BY <1>1, <1>2, ConfigureIsRight DEF IInv, Holds, WellSeen
<1>4. Holds'
    BY <1>2, <1>3, SessionKeeps DEF IInv
<1> QED
    BY <1>2, <1>4 DEF IInv, ReadsAreFaithful

\* An overwritten image counts as seen while it is mounted.
LEMMA ReplaceKeeps ==
    ASSUME IInv, NEW p \in Paths, NEW img \in Images, Replace(p, img)
    PROVE  IInv'
<1>1. /\ Types /\ WellSeen(ses, seen) /\ MountedSeen /\ HandlesListed /\ ReadsAreFaithful
      /\ disk' = [disk EXCEPT ![p] = img]
      /\ seen' = IF p = ses.open /\ mounted THEN seen \cup {img} ELSE seen
      /\ UNCHANGED <<mounted, path, point, ses, handles, answer>>
    BY DEF IInv, Holds, Replace
<1>2. Types' /\ seen \subseteq seen' /\ seen' \in SUBSET Images
    BY <1>1 DEF Types
<1>3. WellSeen(ses, seen)'
    BY <1>1, <1>2, MoreSeen DEF Types
<1>4. MountedSeen'
    <2>1. SUFFICES ASSUME mounted PROVE MountedSeen'
        BY <1>1 DEF MountedSeen
    <2>2. disk'[path] \in seen'
        BY <1>1, <2>1 DEF MountedSeen, Types
    <2> QED
        BY <1>1, <1>2, <2>2 DEF MountedSeen, CatalogSeen, FreeSeen
<1>5. ASSUME NEW g, seen' = {g}
      PROVE  seen = {g}
    BY <1>1, <1>5 DEF MountedSeen
<1>6. seen' = {} => seen = {}
    BY <1>2
<1>7. HandlesListed'
    BY <1>1, <1>5, <1>6 DEF HandlesListed
<1>8. ReadsAreFaithful'
    BY <1>1, <1>5 DEF ReadsAreFaithful
<1> QED
    BY <1>2, <1>3, <1>4, <1>7, <1>8 DEF IInv, Holds

LEMMA StepIInv == IInv /\ [Next]_vars => IInv'
<1> SUFFICES ASSUME IInv, [Next]_vars PROVE IInv'
    OBVIOUS
<1>1. ASSUME NEW p \in Paths, NEW pt \in Points \cup {BadPoint}, MountReadOnly(p, pt)
      PROVE  IInv'
    BY <1>1, MountKeeps
<1>2. ASSUME NEW pt \in Points, Unmount(pt) PROVE IInv'
    BY <1>2, UnmountKeeps
<1>3. ASSUME NEW name \in Spellings, ReadFile(name) \/ GetFileInfo(name) \/ OpenFile(name)
      PROVE  IInv'
    BY <1>3, ReadFileKeeps, GetFileInfoKeeps, OpenFileKeeps
<1>4. ASSUME NEW h \in 1..MaxHandles, Close(h) PROVE IInv'
    BY <1>4, CloseKeeps
<1>5. ASSUME NEW h \in 1..MaxHandles, NEW range \in Ranges, Read(h, range)
      PROVE  IInv'
    BY <1>5, ReadKeeps
<1>6. CASE Mutate
    BY <1>6, RestKeeps DEF Mutate, Reply, IInv, Holds, Types, HandlesListed
<1>7. ASSUME NEW c \in Settings, Configure(c) PROVE IInv'
    BY <1>7, ConfigureKeeps
<1>8. ASSUME NEW p \in Paths, NEW img \in Images, Replace(p, img) PROVE IInv'
    BY <1>8, ReplaceKeeps
<1>9. CASE UNCHANGED vars
    BY <1>9 DEF vars, IInv, Holds, Types, MountedSeen, HandlesListed, ReadsAreFaithful
<1> QED
    BY <1>1, <1>2, <1>3, <1>4, <1>5, <1>6, <1>7, <1>8, <1>9 DEF Next, Calls

\* The invariant, for every set of images, names, settings and ranges.
LEMMA Always == Spec => []IInv
  BY InitIInv, StepIInv, PTL DEF Spec

-----------------------------------------------------------------------------
\* Types and caches, for any capacities: no cache grows over its capacity
\* nor holds a key twice, and a mounted volume has its own image open.
THEOREM TypeCorrect == Spec => []TypeOK
<1>1. IInv => TypeOK
    BY DEF IInv, Holds, Types, MountedSeen, WellSeen, Well, Session, TypeOK
<1> QED
    BY <1>1, Always, PTL

\* Reads answer with the bytes of the image that is mounted, as long as it
\* is the only one the object has seen: through both caches, whatever their
\* capacities, any spelling and any handle (winfsp_filesystem.cpp:96-214).
THEOREM ReadsStayFaithful == Spec => []ReadsAreFaithful
<1>1. IInv => ReadsAreFaithful
    BY DEF IInv
<1> QED
    BY <1>1, Always, PTL

\* So does the listing.
THEOREM ListingStaysFaithful == Spec => []ListingIsFaithful
<1>1. IInv => ListingIsFaithful
    BY DEF IInv, Holds, MountedSeen, CatalogSeen, FreeSeen, ListingIsFaithful
<1> QED
    BY <1>1, Always, PTL

\* A handle names one file until it is closed, and none after.
THEOREM HandlesStay == Spec => HandlesKeepTheirFile
<1>1. ASSUME IInv, [Next]_vars, NEW h \in DOMAIN handles
      PROVE  h \in DOMAIN handles' /\ handles'[h] \in {handles[h], Closed}
    <2>1. handles \in Seq(Spellings \cup {Closed})
        BY <1>1 DEF IInv, Holds, Types
    <2>2. CASE UNCHANGED handles
        BY <1>1, <2>2
    <2>3. ASSUME NEW name \in Spellings, OpenFile(name)
          PROVE  h \in DOMAIN handles' /\ handles'[h] \in {handles[h], Closed}
        <3>1. CASE UNCHANGED handles
            BY <1>1, <3>1
        <3>2. ASSUME NEW f, handles' = Append(handles, f.name)
              PROVE  h \in DOMAIN handles' /\ handles'[h] = handles[h]
            BY <1>1, <2>1, <3>2
        <3> QED
            BY <2>3, <3>1, <3>2 DEF OpenFile
    <2>4. ASSUME NEW g \in 1..MaxHandles, Close(g)
          PROVE  h \in DOMAIN handles' /\ handles'[h] \in {handles[h], Closed}
        BY <1>1, <2>1, <2>4 DEF Close, CloseHandle
    <2> QED
        BY <1>1, <2>2, <2>3, <2>4
           DEF Next, Calls, vars, MountReadOnly, Unmount, ReadFile, GetFileInfo, Read,
               Mutate, Configure, Replace
<1>2. IInv /\ [Next]_vars =>
          [\A h \in DOMAIN handles :
              /\ h \in DOMAIN handles'
              /\ handles'[h] \in {handles[h], Closed}]_vars
    BY <1>1
<1> QED
    BY <1>2, Always, PTL DEF Spec, HandlesKeepTheirFile

-----------------------------------------------------------------------------
(* extract, which opens one image and reads each file of its catalog.      *)

\* What the files of a name hold that can be read.
HeldUnder(name) ==
    {Contents(image, g.start) : g \in {h \in Listed : h.name = name}} \ {Unreadable}

\* A cached file is one of its name.
OwnFile ==
    {e \in [key : Spellings, data : Seq(AllBodies({image}))] : e.data \in HeldUnder(e.key)}

\* A command that could open its image: what it is past of the catalog is on
\* the host, but for what could not be read or the host refused.
Extracted ==
    LET files == image["dir"]
    IN  /\ \A i \in 1..past :
              exit = 0 /\ "flush" \notin Faults
              => host[files[i].name] \in HeldUnder(files[i].name)
        /\ \A i \in 1..past :
              /\ files[i] \notin refused
              /\ Namesakes(files[i]) = {files[i]}
              /\ Contents(image, files[i].start) # Unreadable
              => host[files[i].name] = Contents(image, files[i].start)

ExtractInv ==
    /\ exit = 1 => stage = "done"
    /\ exit # 1 =>
          /\ exit \in {0, 2}
          /\ image \in Disks \ {Unusable} /\ image["dir"] \in Seq(CatalogFile)
          /\ session.catalog = image["dir"]
          /\ Well(session, {image}, OwnFile)
          /\ past \in 0..Len(image["dir"])
          /\ stage = "done" => past = Len(image["dir"])
          /\ DOMAIN host = Spellings
          /\ Extracted

\* The session is opened.
LEMMA InitExtractInv ==
    ASSUME ExtractInit
    PROVE  ExtractInv
<1>1. PICK c \in Caches, mkdirFails \in {FALSE, "mkdir" \in Faults} :
          LET opened == Open(NewSession(c[1], c[2], c[3]), "image", image)
              ready == opened.ok /\ ~ mkdirFails
          IN  /\ session = opened.ses
              /\ exit = IF ready THEN 0 ELSE 1
              /\ stage = IF ready THEN "extracting" ELSE "done"
    BY DEF ExtractInit
<1> DEFINE s == NewSession(c[1], c[2], c[3])
           opened == Open(s, "image", image)
<1>2. /\ session = opened.ses /\ exit \in {0, 1} /\ stage \in {"extracting", "done"}
      /\ exit = 1 <=> stage = "done"
      /\ exit # 1 => opened.ok
    BY <1>1
<1>3. image \in Disks /\ past = 0 /\ host = [t \in Spellings |-> Absent]
    BY DEF ExtractInit
<1>4. SUFFICES ASSUME exit # 1
               PROVE  /\ image \in Disks \ {Unusable} /\ image["dir"] \in Seq(CatalogFile)
                      /\ session.catalog = image["dir"]
                      /\ Well(session, {image}, OwnFile)
    BY <1>2, <1>3 DEF ExtractInv, Extracted
<1>5. c[1] \in Nat /\ c[2] \in Nat /\ c[3] \in Nat
    BY ExtractAssumption
<1>6. Well(s, {image}, OwnFile)
    BY <1>5, NewSessionIsRight
<1> HIDE DEF s
<1>7. image # Unusable
    <2>1. SUFFICES ASSUME image = Unusable PROVE FALSE
        OBVIOUS
    <2>2. opened = [ses |-> [s EXCEPT !.open = NoPath], ok |-> FALSE]
        BY <2>1 DEF Open
    <2> HIDE DEF opened
    <2> QED
        BY <1>2, <1>4, <2>2
<1>8. image \in Disks \ {Unusable} /\ IsImage(image)
    BY <1>3, <1>7, ExtractAssumption
<1>9. Well(opened.ses, {image}, OwnFile) /\ (opened.ok => CatalogSeen(opened.ses, {image}))
    BY <1>6, <1>7, <1>8, OpenIsRight
<1> HIDE DEF opened
<1>10. session.catalog = image["dir"] /\ Well(session, {image}, OwnFile)
    BY <1>2, <1>4, <1>9 DEF CatalogSeen
<1>11. image["dir"] \in Seq(CatalogFile)
    BY <1>10 DEF Well, Session
<1> QED
    BY <1>8, <1>10, <1>11

\* What is listed has a name and a first sector.
LEMMA ListedAreFiles ==
    ASSUME image["dir"] \in Seq(CatalogFile), NEW f \in Listed
    PROVE  f \in CatalogFile /\ f.name \in Spellings
<1>1. PICK i \in DOMAIN image["dir"] : f = image["dir"][i]
    BY DEF Listed
<1>2. f \in CatalogFile
    BY <1>1
<1> QED
    BY <1>2 DEF CatalogFile

\* What is read of a file is held by one of its name.
LEMMA ExtractReads ==
    ASSUME ExtractInv, exit # 1, NEW f \in Listed
    PROVE  LET r == ReadFileByCatalogFile(session, image, f)
           IN  /\ Well(r.ses, {image}, OwnFile) /\ r.ses.catalog = session.catalog
               /\ r.status = "success" => r.data \in HeldUnder(f.name)
               /\ r.status # "success" => Contents(image, f.start) = Unreadable
<1> DEFINE r == ReadFileByCatalogFile(session, image, f)
<1>1. /\ image \in Disks \ {Unusable} /\ IsImage(image) /\ image["dir"] \in Seq(CatalogFile)
      /\ Well(session, {image}, OwnFile)
    BY ExtractAssumption DEF ExtractInv
<1>2. f \in CatalogFile /\ f.name \in Spellings
    BY <1>1, ListedAreFiles
<1>3. ASSUME NEW data, data = Contents(image, f.start), data # Unreadable
      PROVE  data \in HeldUnder(f.name)
    BY <1>3 DEF HeldUnder
<1>4. Cacheable(f, {image}, OwnFile, image)
    BY <1>2, <1>3 DEF Cacheable, ReadAs, OwnFile
<1>5. /\ Well(r.ses, {image}, OwnFile) /\ SameVolume(r.ses, session)
      /\ \/ FromCache(r, OwnFile, f.name)
         \/ r.status = "success" /\ ReadAs(r.data, {image}, image, f.start)
         \/ r.status = "ioError" /\ Contents(image, f.start) = Unreadable
    BY <1>1, <1>2, <1>4, ReadFileIsRight
<1> HIDE DEF r
<1>6. FromCache(r, OwnFile, f.name) => r.status = "success" /\ r.data \in HeldUnder(f.name)
    BY DEF FromCache, OwnFile
<1>7. ReadAs(r.data, {image}, image, f.start) => r.data \in HeldUnder(f.name)
    BY <1>3 DEF ReadAs
<1>8. /\ Well(r.ses, {image}, OwnFile) /\ r.ses.catalog = session.catalog
      /\ r.status = "success" => r.data \in HeldUnder(f.name)
      /\ r.status # "success" => Contents(image, f.start) = Unreadable
    BY <1>5, <1>6, <1>7 DEF SameVolume
<1> QED
    BY <1>8 DEF r

\* One turn of the loop.
LEMMA ExtractFileKeeps ==
    ASSUME ExtractInv, ExtractFile
    PROVE  ExtractInv'
<1> DEFINE files == image["dir"]
           f == files[past + 1]
           r == ReadFileByCatalogFile(session, image, f)
<1>1. exit # 1 /\ stage = "extracting"
    BY DEF ExtractInv, ExtractFile
<1>2. /\ exit \in {0, 2} /\ image \in Disks \ {Unusable} /\ files \in Seq(CatalogFile)
      /\ session.catalog = files /\ past \in 0..Len(files) /\ past < Len(files)
      /\ DOMAIN host = Spellings /\ Extracted
    BY <1>1 DEF ExtractInv, ExtractFile
<1>3. /\ f \in Listed /\ f \in CatalogFile /\ f.name \in Spellings
      /\ \A i \in 1..past : files[i].name \in Spellings
    <2>1. \A i \in 1..Len(files) : files[i] \in Listed
        BY <1>2 DEF Listed
    <2>2. f \in Listed
        BY <1>2, <2>1
    <2> QED
        BY <1>2, <2>1, <2>2, ListedAreFiles
<1>4. /\ session' = r.ses /\ past' = past + 1 /\ image' = image /\ stage' = stage
      /\ \/ r.status = "success" /\ Write(f, r.data)
         \/ r.status # "success" /\ exit' = 2 /\ UNCHANGED <<host, refused>>
    BY <1>2 DEF ExtractFile, NextAfter
<1>5. /\ Well(r.ses, {image}, OwnFile) /\ r.ses.catalog = session.catalog
      /\ r.status = "success" => r.data \in HeldUnder(f.name)
      /\ r.status # "success" => Contents(image, f.start) = Unreadable
    BY <1>1, <1>3, ExtractReads
<1> HIDE DEF r
<1>6. /\ HeldUnder(f.name) \subseteq {Contents(image, g.start) : g \in Namesakes(f)}
      /\ \A n : HeldUnder(n)' = HeldUnder(n)
      /\ OwnFile' = OwnFile
    BY <1>4 DEF HeldUnder, OwnFile, Namesakes, Listed
\* What becomes of a file on the host.
<1>7. /\ exit' \in {exit, 2} /\ DOMAIN host' = Spellings
      /\ refused \subseteq refused'
      /\ \A n \in Spellings : n # f.name => host'[n] = host[n]
    BY <1>2, <1>4 DEF Write
<1>8. \/ r.status = "success" /\ host'[f.name] = r.data
      \/ f \in refused' /\ (exit' = 2 \/ "flush" \in Faults)
      \/ r.status # "success" /\ exit' = 2
    BY <1>2, <1>3, <1>4 DEF Write
<1>9. f = files[past + 1]
    OBVIOUS
<1> HIDE DEF f
<1>10. ASSUME NEW i \in 1..(past + 1), exit' = 0, "flush" \notin Faults
       PROVE  host'[files[i].name] \in HeldUnder(files[i].name)
    <2>1. host'[f.name] \in HeldUnder(f.name)
        BY <1>5, <1>8, <1>10
    <2>2. CASE files[i].name = f.name
        BY <2>1, <2>2
    <2>3. CASE files[i].name # f.name
        <3>1. i \in 1..past /\ exit = 0 /\ files[i].name \in Spellings
            BY <1>2, <1>3, <1>7, <1>9, <1>10, <2>3
        <3>2. host[files[i].name] \in HeldUnder(files[i].name)
            BY <1>2, <1>10, <3>1 DEF Extracted
        <3> QED
            BY <1>7, <2>3, <3>1, <3>2
    <2> QED
        BY <2>2, <2>3
<1>11. ASSUME NEW i \in 1..(past + 1), files[i] \notin refused',
              Namesakes(files[i]) = {files[i]},
              Contents(image, files[i].start) # Unreadable
       PROVE  host'[files[i].name] = Contents(image, files[i].start)
    <2>1. CASE files[i] = f
        <3>1. r.status = "success" /\ host'[f.name] = r.data
            BY <1>5, <1>8, <1>11, <2>1
        <3>2. r.data \in {Contents(image, g.start) : g \in {f}}
            BY <1>5, <1>6, <1>11, <2>1, <3>1
        <3> QED
            BY <2>1, <3>1, <3>2
    <2>2. CASE files[i] # f
        <3>1. i \in 1..past /\ files[i].name \in Spellings
            BY <1>2, <1>3, <1>9, <2>2
        <3>2. files[i].name # f.name
            BY <1>3, <1>11, <2>2 DEF Namesakes
        <3>3. host[files[i].name] = Contents(image, files[i].start)
            BY <1>2, <1>7, <1>11, <3>1 DEF Extracted
        <3> QED
            BY <1>7, <3>1, <3>2, <3>3
    <2> QED
        BY <2>1, <2>2
<1>12. Extracted'
    <2>1. past' = past + 1 /\ image' = image
        BY <1>4
    <2>2. \A g : Namesakes(g)' = Namesakes(g)
        BY <1>4 DEF Namesakes, Listed
    <2> QED
        BY <1>6, <1>10, <1>11, <2>1, <2>2 DEF Extracted
<1>13. /\ exit' \in {0, 2} /\ image' \in Disks \ {Unusable} /\ image'["dir"] \in Seq(CatalogFile)
       /\ session'.catalog = image'["dir"]
       /\ past' \in 0..Len(image'["dir"])
       /\ stage' = "extracting"
    BY <1>1, <1>2, <1>4, <1>5, <1>7
<1>14. Well(session', {image'}, OwnFile')
    BY <1>4, <1>5, <1>6
<1> HIDE DEF files
<1> QED
    BY <1>7, <1>12, <1>13, <1>14 DEF ExtractInv

\* Every step.
LEMMA ExtractKeeps ==
    ASSUME ExtractInv, [ExtractNext]_extractvars
    PROVE  ExtractInv'
<1>1. CASE ExtractFile
    BY <1>1, ExtractFileKeeps
<1>2. CASE Finish \/ UNCHANGED extractvars
    <2>1. /\ UNCHANGED <<image, session, past, host, exit, refused>>
          /\ stage' = stage \/ (stage = "extracting" /\ past = Len(session.catalog))
          /\ exit = 1 => stage' = stage
        BY <1>2 DEF Finish, extractvars, ExtractInv
    <2>2. /\ Extracted' = Extracted
          /\ OwnFile' = OwnFile
        BY <2>1 DEF Extracted, OwnFile, HeldUnder, Namesakes, Listed
    <2>3. Well(session', {image'}, OwnFile') <=> Well(session, {image}, OwnFile)
        BY <2>1, <2>2
    <2> QED
        BY <2>1, <2>2, <2>3 DEF ExtractInv
<1> QED
    BY <1>1, <1>2 DEF ExtractNext

\* The invariant of extract.
LEMMA ExtractAlways == ExtractSpec => []ExtractInv
<1>1. ExtractInit => ExtractInv
    BY InitExtractInv
<1>2. ExtractInv /\ [ExtractNext]_extractvars => ExtractInv'
    BY ExtractKeeps
<1> QED
    BY <1>1, <1>2, PTL DEF ExtractSpec

\* A file with a name of its own that can be read comes out whole, whatever
\* the host refused on the way, short of the file itself.
THEOREM OneFileSpoilsNoOther == ExtractSpec => []NoFileSpoilsAnother
<1>1. ExtractInv => NoFileSpoilsAnother
    <2> SUFFICES ASSUME ExtractInv, stage = "done", exit # 1,
                        NEW f \in Listed, f \notin refused,
                        Namesakes(f) = {f},
                        Contents(image, f.start) # Unreadable
                 PROVE  host[f.name] = Contents(image, f.start)
        BY DEF NoFileSpoilsAnother
    <2>1. image["dir"] \in Seq(CatalogFile) /\ past = Len(image["dir"]) /\ Extracted
        BY DEF ExtractInv
    <2>2. PICK i \in 1..past : f = image["dir"][i]
        BY <2>1 DEF Listed
    <2> QED
        BY <2>1, <2>2 DEF Extracted
<1> QED
    BY <1>1, ExtractAlways, PTL

\* extract writes all that can be extracted, and exit code 0 says that it
\* could be, unless a stream fails in its destructor.
THEOREM ExtractsWell ==
    ASSUME "flush" \notin Faults
    PROVE  ExtractSpec => []ExtractsWhole
<1>1. ExtractInv => ExitCodeTells
    <2> SUFFICES ASSUME ExtractInv, stage = "done", exit = 0, NEW f \in Listed
                 PROVE  host[f.name] \in HeldUnder(f.name)
        BY DEF ExitCodeTells, HeldUnder, Namesakes
    <2>1. image["dir"] \in Seq(CatalogFile) /\ past = Len(image["dir"]) /\ Extracted
        BY DEF ExtractInv
    <2>2. PICK i \in 1..past : f = image["dir"][i]
        BY <2>1 DEF Listed
    <2> QED
        BY <2>1, <2>2 DEF Extracted
<1>2. ExtractsWhole <=> ExitCodeTells /\ NoFileSpoilsAnother
    BY DEF ExtractsWhole
<1> QED
    BY <1>1, <1>2, ExtractAlways, OneFileSpoilsNoOther, PTL
=============================================================================
