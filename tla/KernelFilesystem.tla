-------------------------- MODULE KernelFilesystem --------------------------
(***************************************************************************)
(* KernelReadOnlyFilesystem behind KernelUserBridge: the session and the   *)
(* handle table that requests are dispatched to in loopback mode, while    *)
(* other programs may change the image files.                              *)
(***************************************************************************)
EXTENDS ImageSession

CONSTANTS
    Paths,        \* paths of image files
    Images,       \* the images that may be on them
    Defaults,     \* <<sectorCap, fileCap, maxItem>> of a new session
    MaxHandles    \* bound: handles given out per opened image

ASSUME KernelFilesystemAssumption ==
    /\ MaxHandles \in Nat /\ NoPath \notin Paths
    /\ \A img \in Images : IsImage(img)
    /\ Unusable \notin Images
    /\ Defaults \in Nat \X Nat \X Nat

VARIABLES
    disk,    \* what is on each path
    bridge,  \* the bridge's initialized_
    fs,      \* session_, open_handles_, next_handle_
    answer   \* the last request dispatched and its response

filesystemVars == <<disk, bridge, fs, answer>>

NoHandles == [h \in {} |-> {}]
NoAnswer == [op |-> "none", ok |-> FALSE]

FilesystemInit ==
    /\ disk \in [Paths -> Images \cup {Unusable}]
    /\ bridge = FALSE
    /\ fs = [ses |-> NewSession(Defaults[1], Defaults[2], Defaults[3]),
             handles |-> NoHandles, next |-> 1]
    /\ answer = NoAnswer

\* Initialize: whether the image opens, and the filesystem it leaves.
Opens(p) == Open(fs.ses, p, disk[p]).ok

\* Mutant: the handles of the image before stay open.
HandlesKept(f, ses) == [f EXCEPT !.ses = ses]

\* OpenImage, when the session could open the image.
ImageOpened(f, ses) == [f EXCEPT !.ses = ses, !.handles = NoHandles, !.next = 1]

Initialize(p) ==
    /\ fs' = IF Opens(p)
             THEN ImageOpened(fs, Open(fs.ses, p, disk[p]).ses)
             ELSE [fs EXCEPT !.ses = Open(@, p, disk[p]).ses]
    /\ bridge' = (bridge \/ Opens(p))
    /\ answer' = NoAnswer
    /\ UNCHANGED disk

Fail(op) == answer' = [op |-> op, ok |-> FALSE] /\ UNCHANGED fs

Current == disk[fs.ses.open]

ReadDirectory ==
    /\ answer' = [op |-> "readDirectory", ok |-> TRUE, entries |-> fs.ses.catalog]
    /\ UNCHANGED fs

QueryFile(name) ==
    \/ FindByWindowsName(fs.ses.catalog, name) = {} /\ Fail("queryFile")
    \/ \E f \in FindByWindowsName(fs.ses.catalog, name) :
          LET r == ReadFileByCatalogFile(fs.ses, Current, f)
          IN  /\ fs' = [fs EXCEPT !.ses = r.ses]
              /\ answer' = [op |-> "queryFile", ok |-> r.status = "success",
                            name |-> f.name, size |-> Len(r.data)]

OpenFile(name) ==
    \/ FindByWindowsName(fs.ses.catalog, name) = {} /\ Fail("openFile")
    \/ \E f \in FindByWindowsName(fs.ses.catalog, name) :
          /\ fs.next =< MaxHandles
          /\ fs' = [fs EXCEPT !.next = @ + 1,
                        !.handles = [h \in DOMAIN @ \cup {fs.next} |->
                                        IF h = fs.next THEN f.name ELSE @[h]]]
          /\ answer' = [op |-> "openFile", ok |-> TRUE, handle |-> fs.next]

ReadFile(h) ==
    \/ h \notin DOMAIN fs.handles /\ Fail("readFile")
    \/ /\ h \in DOMAIN fs.handles
       /\ \E r \in ReadFileByWindowsName(fs.ses, Current, fs.handles[h]) :
             /\ fs' = [fs EXCEPT !.ses = r.ses]
             /\ answer' = [op |-> "readFile", ok |-> r.status = "success",
                           handle |-> h, data |-> r.data]

CloseFile(h) ==
    \/ h \notin DOMAIN fs.handles /\ Fail("closeFile")
    \/ /\ h \in DOMAIN fs.handles
       /\ fs' = [fs EXCEPT !.handles = [k \in DOMAIN @ \ {h} |-> @[k]]]
       /\ answer' = [op |-> "closeFile", ok |-> TRUE]

\* Dispatch: nothing but an error before an image was ever opened.
Dispatch ==
    /\ UNCHANGED <<disk, bridge>>
    /\ IF ~ bridge THEN Fail("uninitialized")
       ELSE \/ ReadDirectory
            \/ \E name \in Spellings : QueryFile(name) \/ OpenFile(name)
            \/ \E h \in 1..MaxHandles : ReadFile(h) \/ CloseFile(h)

\* Another program writes an image file.
Replace(p, img) ==
    /\ disk' = [disk EXCEPT ![p] = img]
    /\ UNCHANGED <<bridge, fs, answer>>
=============================================================================
