--------------------------- MODULE D64ImageEditor ---------------------------
(***************************************************************************)
(* D64ImageEditor: adding, deleting and renaming a file inside a .D64      *)
(* image.  Each operation snapshots the whole image in memory, then writes *)
(* the image one sector at a time, and either commits (drops the snapshot) *)
(* or rolls back (writes the snapshot over the image).                     *)
(*                                                                         *)
(* One editor works on one image.  Everything an operation reads before    *)
(* its first write is one step; every sector it writes is a step of its    *)
(* own, between which the process may die.  A sector write is taken to be  *)
(* atomic; the rollback, one long write, is not.                           *)
(***************************************************************************)
EXTENDS D64Format

CONSTANTS
    Targets,        \* the names callers use, a subset of Names
    InitialImages,  \* images as some other program left them
    NoBackup,       \* image_backup_ is empty: no transaction is active
    NoWork,         \* no operation is in progress
    Missing,        \* a host path that cannot be opened
    Faults          \* which of "read", "write", "rollback", "crash" occur

ASSUME EditorAssumption ==
    /\ Targets \subseteq Names
    /\ InitialImages \subseteq Image
    /\ NoBackup \notin Image
    /\ Missing \notin HostFiles
    /\ Faults \subseteq {"read", "write", "rollback", "crash"}

VARIABLES
    image,      \* the image file
    pc,         \* where the editor is
    op,         \* the operation being run
    work,       \* its local variables, once it has decided to write
    backup,     \* image_backup_, or NoBackup when transaction_active_ is false
    writer,     \* whether writer_ is good: no error bit is set on the stream
    outcome,    \* what the last operation returned
    committed,  \* history: the image when no transaction was last active
    before      \* history: the image when the operation being run began

vars == <<image, pc, op, work, backup, writer, outcome, committed, before>>

Writing == {"addData", "writeEntry", "saveBam", "verify"}
Busy == Writing \cup {"rollback"}
NoOperation == [kind |-> "none"]
Operation ==
    [kind : {"add"}, name : Targets, host : HostFiles \cup {Missing}]
        \cup [kind : {"delete"}, name : Targets]
        \cup [kind : {"rename"}, name : Targets, new : Targets]
        \cup {NoOperation}
\* slot, entry: the directory write; bam: the BAM to save; todo: the sectors
\* of an import not yet written, among alloc, all those allocated to it.
Work == [slot : Slots, entry : Entry, bam : Bam,
         alloc : SUBSET FileSectors, todo : SUBSET FileSectors]

TypeOK ==
    /\ image \in Image
    /\ pc \in {"closed", "ready"} \cup Busy
    /\ op \in Operation
    /\ work \in Work \cup {NoWork}
    /\ backup \in Image \cup {NoBackup}
    /\ writer \in BOOLEAN
    /\ outcome \in {"none", "ok", "failed"}
    /\ committed \in Image
    /\ before \in Image

Init ==
    /\ image \in InitialImages
    /\ pc = "closed"
    /\ op = NoOperation
    /\ work = NoWork
    /\ backup = NoBackup
    /\ writer = TRUE
    /\ outcome = "none"
    /\ committed = image
    /\ before = image

-----------------------------------------------------------------------------
(* Opening, and starting an operation.                                     *)

\* Open, on a new editor or again on one that is idle: it forgets a
\* transaction whose rollback failed.
Open ==
    /\ pc \in {"closed", "ready"}
    /\ pc' = "ready"
    /\ op' = NoOperation
    /\ outcome' = "none"
    /\ backup' = NoBackup
    /\ writer' = TRUE
    /\ committed' = image
    /\ UNCHANGED <<image, work, before>>

\* Open fails: the image cannot be read, or cannot be opened for writing.  By
\* then the transaction is forgotten; the caller does not use the editor.
OpenFails ==
    /\ "read" \in Faults
    /\ pc \in {"closed", "ready"}
    /\ pc' = "closed"
    /\ op' = NoOperation
    /\ outcome' = "failed"
    /\ backup' = NoBackup
    /\ writer' \in {writer, FALSE}
    /\ committed' = image
    /\ UNCHANGED <<image, work, before>>

\* Mutant: every operation takes a snapshot of its own.
SnapshotAgain == image

\* BeginTransaction: a transaction still active keeps the snapshot it has.
Snapshot == IF backup = NoBackup THEN image ELSE backup

BeginTransaction(call) ==
    /\ pc = "ready"
    /\ op' = call
    /\ outcome' = "none"
    /\ backup' = Snapshot
    /\ UNCHANGED <<image, writer, committed, before>>

\* The snapshot cannot be read: the operation returns before it began.
BeginFails ==
    /\ "read" \in Faults
    /\ pc = "ready"
    /\ backup = NoBackup
    /\ outcome' = "failed"
    /\ UNCHANGED <<image, pc, op, work, backup, writer, committed, before>>

\* An operation that finds a reason not to write still rolls back.
Refuse == pc' = "rollback" /\ work' = NoWork

\* Reading a sector or the host file may fail wherever it is attempted.
ReadError == "read" \in Faults

-----------------------------------------------------------------------------
(* AddFile.                                                                *)

Allocated(h) ==
    {s \in FreeSectors(image.bam) :
        Rank(s, FreeSectors(image.bam)) < BlocksNeeded(h)}

AddRefused(name, h) ==
    \/ ~ ParseWindowsName(name)
    \/ FindEntryByName(image, name) # {}
    \/ LiveSlots(image) = Slots
    \/ h = Missing
    \/ h \in HostFiles /\ Cardinality(FreeSectors(image.bam)) < BlocksNeeded(h)

NewEntry(name, start) ==
    [type  |-> 128 + ExtensionToFileType(name.ext),
     base  |-> NormalBase[name.base],
     start |-> start]

AddFile(name, h) ==
    /\ BeginTransaction([kind |-> "add", name |-> name, host |-> h])
    /\ \/ /\ AddRefused(name, h) \/ ReadError
          /\ Refuse
       \/ /\ ~ AddRefused(name, h)
          /\ \E d \in FindFreeDirectoryEntry(image),
                first \in Least(Allocated(h)) :
                work' = [slot  |-> d,
                         entry |-> NewEntry(name, first),
                         bam   |-> image.bam,
                         alloc |-> Allocated(h),
                         todo  |-> Allocated(h)]
          /\ pc' = "addData"

\* The sector of the import written for s; the links run in scan order.
DataSector(s, next) ==
    [next    |-> next,
     count   |-> IF next = 0 THEN CountByte(op.host) ELSE 0,
     payload |-> <<op.host, Rank(s, work.alloc)>>]

LinkAfter(s) ==
    IF work.todo = {s} THEN {0} ELSE Least(work.todo \ {s})

-----------------------------------------------------------------------------
(* DeleteFile and RenameFile.                                              *)

DeleteRefused(name) ==
    \/ FindEntryByName(image, name) = {}
    \/ \E d \in FindEntryByName(image, name) :
            ChainLoops(image, image.dir[d].start)

DeleteFile(name) ==
    /\ BeginTransaction([kind |-> "delete", name |-> name])
    /\ \/ /\ DeleteRefused(name) \/ ReadError
          /\ Refuse
       \/ /\ ~ DeleteRefused(name)
          /\ \E d \in FindEntryByName(image, name) :
                work' = [slot  |-> d,
                         entry |-> ClearedEntry,
                         bam   |-> MarkSectorsFree(image.bam,
                                       Chain(image, image.dir[d].start)),
                         alloc |-> {},
                         todo  |-> {}]
          /\ pc' = "writeEntry"

\* A new name that is the old one is not looked up.
RenameRefused(old, new) ==
    \/ ~ ParseWindowsName(new)
    \/ old # new /\ FindEntryByName(image, new) # {}
    \/ FindEntryByName(image, old) = {}

\* (type & 0xF8) | new_type | 0x80
RenamedType(type, ext) ==
    (IF type >= 128 THEN type ELSE type + 128) - (type % 8)
        + ExtensionToFileType(ext)

RenameFile(old, new) ==
    /\ BeginTransaction([kind |-> "rename", name |-> old, new |-> new])
    /\ \/ /\ RenameRefused(old, new) \/ ReadError
          /\ Refuse
       \/ /\ ~ RenameRefused(old, new)
          /\ \E d \in FindEntryByName(image, old) :
                work' = [slot  |-> d,
                         entry |-> [image.dir[d] EXCEPT
                                      !.type = RenamedType(@, new.ext),
                                      !.base = NormalBase[new.base]],
                         bam   |-> image.bam,
                         alloc |-> {},
                         todo  |-> {}]
          /\ pc' = "writeEntry"

-----------------------------------------------------------------------------
(* The writes.  VerifyBamConsistency reads the image back; it fails when a *)
(* file's sector is marked free, and otherwise writes corrected counts.    *)

BamMismatch(img) ==
    \/ ScanFails(img)
    \/ \E s \in ScanUsedSectors(img) : img.bam.free[s]

\* Mutant: DeleteFile saves the BAM before the directory sector.
NextWriteSwapped ==
    CASE pc = "addData" ->
            UNION {{[image EXCEPT !.sec[s] = DataSector(s, next)] :
                        next \in LinkAfter(s)} : s \in Least(work.todo)}
      [] (pc = "writeEntry") # (op.kind = "delete") /\ pc # "verify" ->
            {[image EXCEPT !.dir[work.slot] = work.entry]}
      [] (pc = "saveBam") # (op.kind = "delete") /\ pc # "verify" ->
            {[image EXCEPT !.bam = work.bam]}
      [] OTHER -> {[image EXCEPT !.bam = CorrectedCounts(@)]}

NextWrite ==
    CASE pc = "addData" ->
            UNION {{[image EXCEPT !.sec[s] = DataSector(s, next)] :
                        next \in LinkAfter(s)} : s \in Least(work.todo)}
      [] pc = "writeEntry" -> {[image EXCEPT !.dir[work.slot] = work.entry]}
      [] pc = "saveBam"    -> {[image EXCEPT !.bam = work.bam]}
      [] OTHER             -> {[image EXCEPT !.bam = CorrectedCounts(@)]}

\* WriteSector, when it succeeds: it clears the stream's error bits first.
Proceed(next) ==
    /\ image' \in NextWrite
    /\ writer' = TRUE
    /\ pc' = next
    /\ UNCHANGED <<op, backup, outcome, committed, before>>

WriteData ==
    /\ pc = "addData"
    /\ \E s \in Least(work.todo) :
          /\ work' = [work EXCEPT !.bam = MarkSectorUsed(@, s),
                                  !.todo = @ \ {s}]
          /\ Proceed(IF work.todo = {s} THEN "writeEntry" ELSE "addData")

WriteEntry ==
    /\ pc = "writeEntry"
    /\ op.kind # "rename"
    /\ Proceed("saveBam")
    /\ UNCHANGED work

SaveBam ==
    /\ pc = "saveBam"
    /\ Proceed("verify")
    /\ UNCHANGED work

CommitTransaction ==
    /\ image' \in NextWrite
    /\ writer' = TRUE
    /\ pc' = "ready"
    /\ work' = NoWork
    /\ backup' = NoBackup
    /\ op' = NoOperation
    /\ outcome' = "ok"
    /\ committed' = image'
    /\ before' = image'

\* RenameFile commits on its directory write: it never verifies the BAM.
CommitRename ==
    /\ pc = "writeEntry"
    /\ op.kind = "rename"
    /\ CommitTransaction

VerifyAndCommit ==
    /\ pc = "verify"
    /\ ~ BamMismatch(image)
    /\ CommitTransaction

StartRollback ==
    /\ pc' = "rollback"
    /\ work' = NoWork
    /\ UNCHANGED <<op, backup, outcome, committed, before>>

\* Mutant: the BAM is saved once more.
VerifyRetries ==
    /\ pc = "verify"
    /\ BamMismatch(image) \/ ReadError
    /\ pc' = "saveBam"
    /\ UNCHANGED <<image, op, work, backup, writer, outcome, committed, before>>

VerifyFails ==
    /\ pc = "verify"
    /\ BamMismatch(image) \/ ReadError
    /\ StartRollback
    /\ UNCHANGED <<image, writer>>

\* A write that is reported as failed may have reached the image file.  The
\* error bit stays on the stream.
WriteFails ==
    /\ "write" \in Faults
    /\ pc \in Writing
    /\ pc = "verify" => ~ BamMismatch(image)
    /\ image' \in NextWrite \cup {image}
    /\ writer' = FALSE
    /\ StartRollback

-----------------------------------------------------------------------------
(* Rolling back, and dying.                                                *)

Rollback ==
    /\ pc = "rollback" /\ writer
    /\ image' = backup
    /\ pc' = "ready"
    /\ backup' = NoBackup
    /\ op' = NoOperation
    /\ outcome' = "failed"
    /\ before' = image'
    /\ UNCHANGED <<work, writer, committed>>

\* The image when the rollback stopped after its first n sectors: file
\* sectors 1..BamAt, then the BAM, then the directory, then the others.
RolledBackTo(n) ==
    [sec |-> [s \in FileSectors |->
                IF (IF s =< BamAt THEN s ELSE s + 2) =< n
                THEN backup.sec[s] ELSE image.sec[s]],
     bam |-> IF BamAt + 1 =< n THEN backup.bam ELSE image.bam,
     dir |-> IF BamAt + 2 =< n THEN backup.dir ELSE image.dir]

\* The rollback cannot finish: the transaction stays active.  After a write
\* that failed it cannot even begin, for writer_ is opened again without being
\* closed, and opening an open stream fails.
RollbackFails ==
    /\ pc = "rollback"
    /\ \/ ~ writer /\ UNCHANGED image
       \/ writer /\ "rollback" \in Faults /\ \E n \in 0..(N + 2) : image' = RolledBackTo(n)
    /\ writer' = FALSE
    /\ pc' = "ready"
    /\ op' = NoOperation
    /\ outcome' = "failed"
    /\ before' = image'
    /\ UNCHANGED <<work, backup, committed>>

\* The process ends, and with it the snapshot and the locals.
Crash ==
    /\ "crash" \in Faults
    /\ pc # "closed"
    /\ IF pc = "rollback" /\ writer
       THEN \E n \in 0..(N + 2) : image' = RolledBackTo(n)
       ELSE UNCHANGED image
    /\ pc' = "closed"
    /\ op' = NoOperation
    /\ work' = NoWork
    /\ backup' = NoBackup
    /\ writer' = TRUE
    /\ outcome' = "none"
    /\ committed' = image'
    /\ before' = image'

-----------------------------------------------------------------------------
Call ==
    \E name \in Targets :
        \/ \E h \in HostFiles \cup {Missing} : AddFile(name, h)
        \/ DeleteFile(name)
        \/ \E new \in Targets : RenameFile(name, new)

Step ==
    \/ WriteData \/ WriteEntry \/ SaveBam
    \/ CommitRename \/ VerifyAndCommit \/ VerifyFails
    \/ WriteFails \/ Rollback \/ RollbackFails

Next == Open \/ OpenFails \/ Call \/ BeginFails \/ Step \/ Crash

Spec == Init /\ [][Next]_vars

\* An operation that has been called runs: its caller waits for it.
FairSpec == Spec /\ WF_vars(Step)

-----------------------------------------------------------------------------
(* Properties.                                                             *)

AtRest == pc = "ready" /\ backup = NoBackup

\* A step on which an operation of one of the kinds reports success.
Done(kinds) == op.kind \in kinds /\ outcome' = "ok" /\ outcome # "ok"

\* No chain of a live file meets itself.
ChainsEnd(img) == ~ ScanFails(img)

\* No live file's sector is marked free, so no import can overwrite it.
FilesAllocated(img) ==
    \A s \in ScanUsedSectors(img) : ~ img.bam.free[s]

\* No sector belongs to two live files.
ChainsDisjoint(img) ==
    \A d \in LiveSlots(img), e \in LiveSlots(img) : d # e =>
        Chain(img, img.dir[d].start) \cap Chain(img, img.dir[e].start) = {}

Sound(img) == ChainsEnd(img) /\ FilesAllocated(img) /\ ChainsDisjoint(img)

\* Between operations the directory and the BAM agree: chains end, their
\* sectors are marked used and no two files share one.  AddFile takes its
\* sectors from a BAM read before its writes, DeleteFile frees a chain it
\* walked before them, and failed operations have been rolled back.
SoundAtRest == AtRest => Sound(image)

\* Every file sector is either free or part of a live file: no sequence of
\* operations loses space.  VerifyBamConsistency only looks for sectors that
\* are used but marked free, so this rests on AddFile and DeleteFile.
SpaceAccounted ==
    AtRest => \A s \in FileSectors :
                  image.bam.free[s] <=> s \notin ScanUsedSectors(image)

\* Each track's free count is the number of its free bits.
CountsRight(bam) ==
    \A t \in Tracks : bam.count[t] = Cardinality(FreeOnTrack(bam, t))

\* The counts, which BAMReader sums into the free space, and the bits, from
\* which AddFile allocates, do not drift apart: on an image whose counts were
\* right when no transaction was last active they are right after every single
\* write, failed write, kill and partial rollback, on whatever damaged image
\* these leave.  MarkSectorUsed and MarkSectorFree must count exactly the bits
\* they change, also on a chain some of whose sectors are marked free already.
CountsStayRight == CountsRight(committed.bam) => CountsRight(image.bam)

\* The transaction: with none active the image is the committed one, and the
\* snapshot of an active one is the committed image, however many later
\* operations found it still active after a failed rollback.
TransactionRestores ==
    IF backup = NoBackup THEN image = committed ELSE backup = committed

\* What a kill at any point of an operation leaves behind on an image that was
\* sound when the operation began, at any point of its rollback too: at most
\* lost space, except in the one window in which an import's directory entry
\* is on disk and its BAM is not, or is being undone.
InterruptedSafely ==
    pc \in Busy /\ Sound(before) /\ backup = before =>
        \/ /\ Sound(image)
           /\ pc = "rollback" => \A n \in 0..(N + 2) : Sound(RolledBackTo(n))
        \/ op.kind = "add" /\ pc \in {"saveBam", "rollback"}

\* new is old with other contents in sectors that were free, another entry at
\* slot e, and at most the sectors of e's chain marked free.
OnlyTouched(old, new, e) ==
    /\ \A d \in Slots \ {e} : new.dir[d] = old.dir[d]
    /\ \A s \in FileSectors :
          \/ old.bam.free[s]
          \/ /\ new.sec[s] = old.sec[s]
             /\ ~ new.bam.free[s] \/ s \in Chain(old, old.dir[e].start)

\* What an operation may touch.  No write of an import, a deletion or a rename,
\* and none of its verification, changes a sector that was marked used when it
\* began, changes a directory entry other than its own, or frees a sector off
\* the chain of that entry -- on any image that earlier kills, failed writes and
\* partial rollbacks have left, looping and crossed chains included.
OthersUntouched ==
    [][(pc \in Writing) => \E e \in Slots : OnlyTouched(before, image', e)]_vars

\* A call that started returns.
CallsReturn == (pc \in Busy) ~> (pc \in {"ready", "closed"})

\* An operation that fails leaves the image as it found it.
RollsBackOnFailure ==
    [][pc = "rollback" /\ pc' = "ready" => image' = before]_vars

\* After AddFile reports success, the file is found under the name the
\* caller gave and reads back as the host file.
AddedFileReadable ==
    [][Done({"add"}) =>
        \E d \in FindByWindowsName(image', op.name) :
            LET start == image'.dir[d].start
            IN  /\ ~ ReadFails(image', start)
                /\ FileData(image', start) = HostData(op.host)]_vars

\* No two live files have the same name: adding a name that exists fails.
NamesUnique ==
    AtRest => \A d \in LiveSlots(image), e \in LiveSlots(image) : d # e =>
                  DirectoryEntryToWindowsName(image.dir[d])
                    # DirectoryEntryToWindowsName(image.dir[e])

(***************************************************************************)
(* The editor implements AtomicVolume: the volume is what the directory    *)
(* and the chains say, in the snapshot while a transaction is active and   *)
(* in the image otherwise.                                                 *)
(***************************************************************************)
FileIn(img, d) ==
    [name |-> DirectoryEntryToWindowsName(img.dir[d]),
     data |-> Pieces(img, img.dir[d].start)]

Volume(img) ==
    [d \in Slots |-> IF IsLive(img.dir[d]) THEN FileIn(img, d) ELSE ClearedEntry]

StoredName == [name \in Targets |->
    DirectoryEntryToWindowsName(NewEntry(name, 0))]

Abstract == INSTANCE AtomicVolume WITH
    Places <- Slots, Stored <- StoredName,
    Hosts <- HostFiles, DataOf <- [h \in HostFiles |-> HostPieces(h)],
    Vacant <- ClearedEntry, volume <- Volume(Snapshot)

\* Every step of the editor is an atomic operation on the volume, or none:
\* other files keep their names and their contents through every import,
\* deletion, rename and rolled back failure.
ImplementsAtomicVolume == Abstract!Spec
=============================================================================
