------------------------- MODULE MountedFilesystem -------------------------
(***************************************************************************)
(* WinFspFilesystem: the read-only front end that mounts an image, resolves*)
(* names and handles against the session's catalog and serves reads, while *)
(* other programs may change the image files.  One object is used by one   *)
(* thread and outlives its mounts.                                         *)
(***************************************************************************)
EXTENDS ImageSession

CONSTANTS
    Paths,        \* paths of image files
    Images,       \* the images that may be on them
    Points,       \* mount points, normalised to upper case
    BadPoint,     \* a mount point that is not a drive letter and a colon
    NoPoint,      \* mount_point_ is empty
    Ranges,       \* the <<offset, size>> pairs callers read
    Closed,       \* the empty name of a closed handle
    Defaults,     \* <<sectorCap, fileCap, maxItem>> of a new session
    Settings,     \* those given to ConfigureCaches
    MaxHandles    \* bound: handles opened by one object

ASSUME FilesystemAssumption ==
    /\ MaxHandles \in Nat
    /\ Closed \notin Spellings
    /\ BadPoint \notin Points /\ NoPoint \notin Points \cup {BadPoint}
    /\ NoPath \notin Paths
    /\ \A img \in Images : IsImage(img)
    /\ Unusable \notin Images
    /\ Settings \cup {Defaults} \subseteq Nat \X Nat \X Nat
    /\ Ranges \subseteq Nat \X Nat

VARIABLES
    disk,      \* what is on each path
    mounted, path, point,  \* mounted_, image_path_, mount_point_
    ses,       \* session_
    handles,   \* open_handles_: the name of each handle ever opened
    answer,    \* the last call and what it returned, status included
    seen       \* history: the images this object may have read from

vars == <<disk, mounted, path, point, ses, handles, answer, seen>>

Init ==
    /\ disk \in [Paths -> Images \cup {Unusable}]
    /\ mounted = FALSE /\ path = NoPath /\ point = NoPoint
    /\ ses = NewSession(Defaults[1], Defaults[2], Defaults[3])
    /\ handles = <<>>
    /\ answer = [op |-> "none", status |-> "success"]
    /\ seen = {}

-----------------------------------------------------------------------------
\* The image file as it is now, through the stream the session holds open.
Current == disk[ses.open]

Reply(op, status) == answer' = [op |-> op, status |-> status]

MountReadOnly(p, pt) ==
    /\ UNCHANGED <<disk, handles>>
    /\ IF mounted
       THEN /\ Reply("mount", "alreadyMounted")
            /\ UNCHANGED <<mounted, path, point, ses, seen>>
       ELSE /\ path' = p
            /\ point' = pt
            /\ IF pt = BadPoint
               THEN /\ Reply("mount", "invalidMountPoint")
                    /\ UNCHANGED <<mounted, ses, seen>>
               ELSE LET result == Open(ses, p, disk[p])
                    IN  /\ ses' = result.ses
                        /\ mounted' = result.ok
                        /\ seen' = seen \cup ({disk[p]} \ {Unusable})
                        /\ Reply("mount", IF result.ok THEN "success" ELSE "ioError")

Unmount(pt) ==
    /\ UNCHANGED <<disk, ses, handles, seen>>
    /\ IF ~ mounted
       THEN Reply("unmount", "notMounted") /\ UNCHANGED <<mounted, path, point>>
       ELSE IF pt # point
       THEN Reply("unmount", "mountPointMismatch") /\ UNCHANGED <<mounted, path, point>>
       ELSE /\ Reply("unmount", "success")
            /\ mounted' = FALSE
            /\ path' = NoPath
            /\ point' = NoPoint

\* What Read returns of a file's bytes.
Slice(data, range) ==
    LET offset == range[1]
        remaining == Len(data) - offset
        size == IF range[2] < remaining THEN range[2] ELSE remaining
    IN  IF offset >= Len(data) THEN <<>>
        ELSE SubSeq(data, offset + 1, offset + size)

ReadFile(name) ==
    /\ UNCHANGED <<disk, mounted, path, point, handles, seen>>
    /\ IF ~ mounted
       THEN Reply("readFile", "notMounted") /\ UNCHANGED ses
       ELSE \E r \in ReadFileByWindowsName(ses, Current, name) :
               /\ ses' = r.ses
               /\ answer' = [op |-> "readFile", name |-> name,
                             status |-> r.status, data |-> r.data]

GetFileInfo(name) ==
    /\ UNCHANGED <<disk, mounted, path, point, handles, seen>>
    /\ IF ~ mounted
       THEN Reply("info", "notMounted") /\ UNCHANGED ses
       ELSE \/ /\ FindByWindowsName(ses.catalog, name) = {}
               /\ answer' = [op |-> "info", name |-> name, status |-> "fileNotFound"]
               /\ UNCHANGED ses
            \/ \E f \in FindByWindowsName(ses.catalog, name) :
                  LET r == ReadFileByCatalogFile(ses, Current, f)
                  IN  /\ ses' = r.ses
                      /\ answer' = [op |-> "info", name |-> name,
                                    status |-> r.status, size |-> Len(r.data)]

OpenFile(name) ==
    /\ Len(handles) < MaxHandles
    /\ UNCHANGED <<disk, mounted, path, point, ses, seen>>
    /\ IF ~ mounted
       THEN Reply("open", "notMounted") /\ UNCHANGED handles
       ELSE \/ /\ FindByWindowsName(ses.catalog, name) = {}
               /\ Reply("open", "fileNotFound")
               /\ UNCHANGED handles
            \/ \E f \in FindByWindowsName(ses.catalog, name) :
                  /\ handles' = Append(handles, f.name)
                  /\ Reply("open", "success")

IsValidHandle(h) == h \in DOMAIN handles /\ handles[h] # Closed

Read(h, range) ==
    /\ UNCHANGED <<disk, mounted, path, point, handles, seen>>
    /\ IF ~ mounted
       THEN Reply("read", "notMounted") /\ UNCHANGED ses
       ELSE IF ~ IsValidHandle(h)
       THEN Reply("read", "invalidHandle") /\ UNCHANGED ses
       ELSE \E r \in ReadFileByWindowsName(ses, Current, handles[h]) :
               /\ ses' = r.ses
               /\ answer' = [op |-> "read", name |-> handles[h], range |-> range,
                             status |-> r.status, data |-> Slice(r.data, range)]

\* Mutant: the handle is taken out of the table.
CloseErases(h) == SubSeq(handles, 1, h - 1) \o SubSeq(handles, h + 1, Len(handles))

CloseHandle(h) == [handles EXCEPT ![h] = Closed]

Close(h) ==
    /\ UNCHANGED <<disk, mounted, path, point, ses, seen>>
    /\ IF ~ mounted
       THEN Reply("close", "notMounted") /\ UNCHANGED handles
       ELSE IF ~ IsValidHandle(h)
       THEN Reply("close", "invalidHandle") /\ UNCHANGED handles
       ELSE Reply("close", "success") /\ handles' = CloseHandle(h)

\* Create, write, delete, rename, set size and set attributes.
Mutate ==
    /\ Reply("mutate", "accessDenied")
    /\ UNCHANGED <<disk, mounted, path, point, ses, handles, seen>>

Configure(s) ==
    /\ ses' = ConfigureCaches(ses, s[1], s[2], s[3])
    /\ UNCHANGED <<disk, mounted, path, point, handles, answer, seen>>

\* Another program writes an image file, opened here or not.
Replace(p, img) ==
    /\ disk' = [disk EXCEPT ![p] = img]
    /\ seen' = IF p = ses.open /\ mounted THEN seen \cup {img} ELSE seen
    /\ UNCHANGED <<mounted, path, point, ses, handles, answer>>

Calls ==
    \/ \E p \in Paths, pt \in Points \cup {BadPoint} : MountReadOnly(p, pt)
    \/ \E pt \in Points : Unmount(pt)
    \/ \E name \in Spellings : ReadFile(name) \/ GetFileInfo(name) \/ OpenFile(name)
    \/ \E h \in 1..MaxHandles : Close(h) \/ \E range \in Ranges : Read(h, range)
    \/ Mutate
    \/ \E s \in Settings : Configure(s)

Next == Calls \/ \E p \in Paths, img \in Images : Replace(p, img)

Spec == Init /\ [][Next]_vars

-----------------------------------------------------------------------------
TypeOK ==
    /\ disk \in [Paths -> Images \cup {Unusable}]
    /\ mounted \in BOOLEAN
    /\ path \in Paths \cup {NoPath}
    /\ point \in Points \cup {BadPoint, NoPoint}
    /\ ses.open \in Paths \cup {NoPath}
    /\ ses.catalog \in Seq(CatalogFile)
    /\ handles \in Seq(Spellings \cup {Closed})
    /\ seen \subseteq Images
    /\ CachesWellFormed(ses)
    /\ mounted => ses.open = path /\ point \in Points

\* What the file of an image holds that a caller means by a name, if any.
FileIn(img, name) ==
    {Contents(img, f.start) : f \in FindByWindowsName(img["dir"], name)}

\* As long as every mount of the object was of one unchanging image, a read
\* answers with that image's bytes and with an error only when they cannot
\* be read: whatever was evicted, cached under another spelling or not
\* cached for its size, however the caches were resized, and through
\* handles opened before an unmount and a remount as well.
ReadsAreFaithful ==
    \A img \in Images :
        seen = {img} /\ answer.op \in {"read", "readFile", "info"} =>
            \/ answer.status \in {"notMounted", "invalidHandle"}
            \/ /\ answer.status = "fileNotFound"
               /\ answer.op # "read"
               /\ FileIn(img, answer.name) = {}
            \/ /\ answer.status = "ioError"
               /\ FileIn(img, answer.name) = {Unreadable}
            \/ /\ answer.status = "success"
               /\ \E data \in FileIn(img, answer.name) \ {Unreadable} :
                    CASE answer.op = "read" -> answer.data = Slice(data, answer.range)
                      [] answer.op = "readFile" -> answer.data = data
                      [] answer.op = "info" -> answer.size = Len(data)

\* A mounted volume lists the image it was mounted from, under the same
\* condition: its catalog and its free count are that image's.
ListingIsFaithful ==
    \A img \in Images :
        mounted /\ seen = {img} => ses.catalog = img["dir"] /\ ses.free = img["bam"]

\* A handle names one file until it is closed, and never comes back after.
HandlesKeepTheirFile ==
    [][\A h \in DOMAIN handles :
          /\ h \in DOMAIN handles'
          /\ handles'[h] \in {handles[h], Closed}]_vars
=============================================================================
