------------------------ MODULE D64ImageEditorProofs ------------------------
(***************************************************************************)
(* Proofs about D64ImageEditor, for every image size, directory, set of    *)
(* names and host files, and every combination of faults.                  *)
(***************************************************************************)
EXTENDS D64ImageEditor, FiniteSetTheorems, FunctionTheorems, WellFoundedInduction, TLAPS

-----------------------------------------------------------------------------
(* What the operators of D64Format return.                                 *)

\* Any set of file sectors can be counted.
LEMMA SectorSetsCount ==
    ASSUME NEW S \in SUBSET FileSectors
    PROVE  Cardinality(S) \in Nat
<1>1. IsFiniteSet(FileSectors)
    BY FormatAssumption, FS_Interval DEF FileSectors
<1>2. IsFiniteSet(S)
    BY <1>1, FS_Subset
<1> QED
    BY <1>2, FS_CardinalityType

\* Storing a number in a byte truncates it to one.
LEMMA TruncatedIsByte ==
    ASSUME NEW n \in Int
    PROVE  n % 256 \in Bytes
    BY DEF Bytes

\* MarkSectorUsed keeps a BAM a BAM.
LEMMA MarkSectorUsedType ==
    ASSUME NEW bam \in Bam, NEW s \in FileSectors
    PROVE  MarkSectorUsed(bam, s) \in Bam
<1>1. TrackOf[s] \in Tracks
    BY DEF Tracks
<1>2. bam.count[TrackOf[s]] \in Bytes
    BY <1>1 DEF Bam
<1>3. (IF bam.count[TrackOf[s]] > 0 THEN bam.count[TrackOf[s]] - 1 ELSE 0) \in Bytes
    BY <1>2 DEF Bytes
<1> QED
    BY <1>1, <1>3 DEF MarkSectorUsed, Bam

\* MarkSectorFree, on any set of sectors, keeps a BAM a BAM.
LEMMA MarkSectorsFreeType ==
    ASSUME NEW bam \in Bam, NEW S \in SUBSET FileSectors
    PROVE  MarkSectorsFree(bam, S) \in Bam
<1> DEFINE freed(t) == {s \in S : TrackOf[s] = t /\ ~ bam.free[s]}
<1>1. ASSUME NEW t \in Tracks
      PROVE  (bam.count[t] + Cardinality(freed(t))) % 256 \in Bytes
    <2>1. Cardinality(freed(t)) \in Nat
        BY SectorSetsCount
    <2>2. bam.count[t] \in Nat
        BY DEF Bam, Bytes
    <2> QED
        BY <2>1, <2>2, TruncatedIsByte
<1>2. [s \in FileSectors |-> bam.free[s] \/ s \in S] \in [FileSectors -> BOOLEAN]
    BY Zenon
<1> QED
    BY <1>1, <1>2 DEF MarkSectorsFree, Bam

\* Correcting the counts keeps a BAM a BAM.
LEMMA CorrectedCountsType ==
    ASSUME NEW bam \in Bam
    PROVE  CorrectedCounts(bam) \in Bam
<1>1. ASSUME NEW t \in Tracks
      PROVE  Cardinality(FreeOnTrack(bam, t)) % 256 \in Bytes
    BY SectorSetsCount, TruncatedIsByte DEF FreeOnTrack, FreeSectors
<1> QED
    BY <1>1 DEF CorrectedCounts, Bam

\* The kind of an extension fits the three low bits of the type byte.
LEMMA ExtensionToFileTypeRange ==
    ASSUME NEW ext
    PROVE  ExtensionToFileType(ext) \in 0..4
    BY DEF ExtensionToFileType

\* A chain is a set of file sectors.
LEMMA ChainType ==
    ASSUME NEW img, NEW s
    PROVE  Chain(img, s) \in SUBSET FileSectors
    BY DEF Chain

-----------------------------------------------------------------------------
(* What an operation prepares, and what it writes.                         *)

\* The entry AddFile writes is an entry.
LEMMA NewEntryType ==
    ASSUME NEW name \in Targets, NEW start \in 0..N
    PROVE  NewEntry(name, start) \in Entry
<1>1. NormalBase[name.base] \in Bases
    BY EditorAssumption, FormatAssumption DEF Names
<1>2. 128 + ExtensionToFileType(name.ext) \in Bytes
    BY ExtensionToFileTypeRange DEF Bytes
<1> QED
    BY <1>1, <1>2 DEF NewEntry, Entry

\* The type byte RenameFile writes is a byte.
LEMMA RenamedTypeRange ==
    ASSUME NEW type \in Bytes, NEW ext
    PROVE  RenamedType(type, ext) \in Bytes
<1> DEFINE kind == ExtensionToFileType(ext)
<1>1. kind \in 0..4
    BY ExtensionToFileTypeRange
<1>2. type \in 0..255 /\ (type % 8) \in 0..7 /\ type - (type % 8) \in 0..248
    BY DEF Bytes
<1>3. type < 128 => type - (type % 8) \in 0..120
    BY <1>2
<1> HIDE DEF kind
<1> QED
    BY <1>1, <1>2, <1>3 DEF RenamedType, Bytes, kind

\* A sector of an import is a sector.
LEMMA DataSectorType ==
    ASSUME NEW s, NEW next \in 0..N,
           op.host \in HostFiles, work.alloc \in SUBSET FileSectors
    PROVE  DataSector(s, next) \in Sector
<1>1. Rank(s, work.alloc) \in Nat
    BY SectorSetsCount DEF Rank
<1>2. CountByte(op.host) \in Bytes
    <2>1. HostSize[op.host] \in Nat
        BY FormatAssumption
    <2>2. BlocksNeeded(op.host) \in Int
        BY <2>1 DEF BlocksNeeded
    <2> QED
        BY <2>1, <2>2, TruncatedIsByte DEF CountByte, LastCopySize
<1>3. 0 \in Bytes
    BY DEF Bytes
<1> QED
    BY <1>1, <1>2, <1>3 DEF DataSector, Sector, Payloads

-----------------------------------------------------------------------------
(* The inductive invariant behind the first two theorems: types, what the  *)
(* editor knows while it writes, and the transaction.                      *)

InProgress ==
    /\ pc \in Writing => work \in Work
    /\ pc = "addData" => op.kind = "add" /\ op.host \in HostFiles
    /\ pc \in Busy => backup # NoBackup

IInv == TypeOK /\ InProgress /\ TransactionRestores

\* Each write of an operation yields an image.
LEMMA NextWriteType ==
    ASSUME IInv, pc \in Writing
    PROVE  NextWrite \in SUBSET Image
<1> USE DEF IInv, InProgress, TypeOK
<1>1. image \in Image /\ work \in Work
    OBVIOUS
<1>2. CASE pc = "addData"
    <2>1. ASSUME NEW s \in Least(work.todo), NEW next \in LinkAfter(s)
          PROVE  [image EXCEPT !.sec[s] = DataSector(s, next)] \in Image
        <3>1. s \in FileSectors /\ next \in 0..N
            BY <1>1, <2>1, FormatAssumption DEF Least, LinkAfter, Work, FileSectors
        <3>2. op.host \in HostFiles /\ work.alloc \in SUBSET FileSectors
            BY <1>1, <1>2 DEF Work
        <3>3. DataSector(s, next) \in Sector
            BY <3>1, <3>2, DataSectorType
        <3> QED
            BY <1>1, <3>1, <3>3 DEF Image
    <2>2. NextWrite =
            UNION {{[image EXCEPT !.sec[s] = DataSector(s, next)] :
                        next \in LinkAfter(s)} : s \in Least(work.todo)}
        BY <1>2 DEF NextWrite
    <2> QED
        BY <2>1, <2>2
<1>3. CASE pc = "writeEntry"
    <2>1. NextWrite = {[image EXCEPT !.dir[work.slot] = work.entry]}
        BY <1>3 DEF NextWrite
    <2>2. work.slot \in Slots /\ work.entry \in Entry
        BY <1>1 DEF Work
    <2>3. [image EXCEPT !.dir[work.slot] = work.entry] \in Image
        BY <1>1, <2>2 DEF Image
    <2> QED
        BY <2>1, <2>3
<1>4. CASE pc = "saveBam"
    <2>1. NextWrite = {[image EXCEPT !.bam = work.bam]}
        BY <1>4 DEF NextWrite
    <2>2. [image EXCEPT !.bam = work.bam] \in Image
        BY <1>1 DEF Image, Work
    <2> QED
        BY <2>1, <2>2
<1>5. CASE pc = "verify"
    <2>1. NextWrite = {[image EXCEPT !.bam = CorrectedCounts(image.bam)]}
        BY <1>5 DEF NextWrite
    <2>2. CorrectedCounts(image.bam) \in Bam
        BY <1>1, CorrectedCountsType DEF Image
    <2>3. [image EXCEPT !.bam = CorrectedCounts(image.bam)] \in Image
        BY <1>1, <2>2 DEF Image
    <2> QED
        BY <2>1, <2>3
<1> QED
    BY <1>2, <1>3, <1>4, <1>5 DEF Writing

\* A rollback stopped anywhere leaves an image.
LEMMA RolledBackToType ==
    ASSUME image \in Image, backup \in Image, NEW n
    PROVE  RolledBackTo(n) \in Image
    BY DEF RolledBackTo, Image

\* The snapshot of an operation that begins is the committed image.
LEMMA SnapshotIsCommitted ==
    ASSUME IInv
    PROVE  Snapshot \in Image /\ Snapshot # NoBackup /\ Snapshot = committed
    BY EditorAssumption DEF IInv, TypeOK, TransactionRestores, Snapshot

-----------------------------------------------------------------------------
(* Each action preserves IInv.                                             *)

\* Beginning an operation, whatever it then prepares.
LEMMA BeginPreserves ==
    ASSUME IInv, NEW call \in Operation, BeginTransaction(call),
           \/ Refuse
           \/ /\ pc' \in {"addData", "writeEntry"}
              /\ work' \in Work
              /\ pc' = "addData" => call.kind = "add" /\ call.host \in HostFiles
    PROVE  IInv'
<1>1. Snapshot \in Image /\ Snapshot # NoBackup /\ Snapshot = committed
    BY SnapshotIsCommitted
<1>2. TypeOK'
    BY <1>1 DEF IInv, TypeOK, BeginTransaction, Refuse, Busy, Writing
<1>3. InProgress'
    BY <1>1 DEF BeginTransaction, Refuse, InProgress, Busy, Writing
<1>4. TransactionRestores'
    BY <1>1 DEF BeginTransaction, TransactionRestores
<1> QED
    BY <1>2, <1>3, <1>4 DEF IInv

LEMMA AddFilePreserves ==
    ASSUME IInv, NEW name \in Targets, NEW h \in HostFiles \cup {Missing},
           AddFile(name, h)
    PROVE  IInv'
<1> DEFINE call == [kind |-> "add", name |-> name, host |-> h]
<1>1. call \in Operation
    BY DEF Operation
<1>2. BeginTransaction(call)
    BY DEF AddFile
<1>3. CASE Refuse
    BY <1>1, <1>2, <1>3, BeginPreserves
<1>4. CASE ~ AddRefused(name, h) /\ pc' = "addData" /\
           \E d \in FindFreeDirectoryEntry(image), first \in Least(Allocated(h)) :
                work' = [slot |-> d, entry |-> NewEntry(name, first),
                         bam |-> image.bam,
                         alloc |-> Allocated(h), todo |-> Allocated(h)]
    <2>1. h \in HostFiles
        BY <1>4 DEF AddRefused
    <2>2. PICK d \in FindFreeDirectoryEntry(image), first \in Least(Allocated(h)) :
                work' = [slot |-> d, entry |-> NewEntry(name, first),
                         bam |-> image.bam,
                         alloc |-> Allocated(h), todo |-> Allocated(h)]
        BY <1>4
    <2>3. d \in Slots
        BY <2>2 DEF FindFreeDirectoryEntry, Least
    <2>4. Allocated(h) \in SUBSET FileSectors
        BY DEF Allocated, FreeSectors
    <2>5. first \in 0..N
        BY <2>2, <2>4, FormatAssumption DEF Least, FileSectors
    <2>6. NewEntry(name, first) \in Entry
        BY <2>5, NewEntryType
    <2>7. image.bam \in Bam
        BY DEF IInv, TypeOK, Image
    <2>8. work' \in Work
        BY <2>2, <2>3, <2>4, <2>6, <2>7 DEF Work
    <2>9. call.kind = "add" /\ call.host \in HostFiles
        BY <2>1
    <2> QED
        BY <1>1, <1>2, <1>4, <2>8, <2>9, BeginPreserves
<1> QED
    BY <1>3, <1>4 DEF AddFile

LEMMA DeleteFilePreserves ==
    ASSUME IInv, NEW name \in Targets, DeleteFile(name)
    PROVE  IInv'
<1> DEFINE call == [kind |-> "delete", name |-> name]
<1> DEFINE freed(d) == MarkSectorsFree(image.bam, Chain(image, image.dir[d].start))
<1>1. call \in Operation
    BY DEF Operation
<1>2. BeginTransaction(call)
    BY DEF DeleteFile
<1>3. CASE Refuse
    BY <1>1, <1>2, <1>3, BeginPreserves
<1>4. CASE pc' = "writeEntry" /\
           \E d \in FindEntryByName(image, name) :
                work' = [slot |-> d, entry |-> ClearedEntry, bam |-> freed(d),
                         alloc |-> {}, todo |-> {}]
    <2>1. PICK d \in FindEntryByName(image, name) :
                work' = [slot |-> d, entry |-> ClearedEntry, bam |-> freed(d),
                         alloc |-> {}, todo |-> {}]
        BY <1>4
    <2>2. d \in Slots
        BY <2>1 DEF FindEntryByName, Least, LiveSlots
    <2>3. freed(d) \in Bam
        BY ChainType, MarkSectorsFreeType DEF IInv, TypeOK, Image
    <2>4. ClearedEntry \in Entry
        BY FormatAssumption DEF ClearedEntry, Entry, Bytes
    <2> HIDE DEF freed
    <2>5. work' \in Work
        BY <2>1, <2>2, <2>3, <2>4 DEF Work
    <2> QED
        BY <1>1, <1>2, <1>4, <2>5, BeginPreserves
<1> QED
    BY <1>3, <1>4 DEF DeleteFile

LEMMA RenameFilePreserves ==
    ASSUME IInv, NEW name \in Targets, NEW new \in Targets, RenameFile(name, new)
    PROVE  IInv'
<1> DEFINE call == [kind |-> "rename", name |-> name, new |-> new]
<1> DEFINE renamed(d) ==
        [image.dir[d] EXCEPT !.type = RenamedType(@, new.ext),
                             !.base = NormalBase[new.base]]
<1>1. call \in Operation
    BY DEF Operation
<1>2. BeginTransaction(call)
    BY DEF RenameFile
<1>3. CASE Refuse
    BY <1>1, <1>2, <1>3, BeginPreserves
<1>4. CASE pc' = "writeEntry" /\
           \E d \in FindEntryByName(image, name) :
                work' = [slot |-> d, entry |-> renamed(d), bam |-> image.bam,
                         alloc |-> {}, todo |-> {}]
    <2>1. PICK d \in FindEntryByName(image, name) :
                work' = [slot |-> d, entry |-> renamed(d), bam |-> image.bam,
                         alloc |-> {}, todo |-> {}]
        BY <1>4
    <2>2. d \in Slots
        BY <2>1 DEF FindEntryByName, Least, LiveSlots
    <2>3. image.dir[d] \in Entry /\ image.bam \in Bam
        BY <2>2 DEF IInv, TypeOK, Image
    <2>4. RenamedType(image.dir[d].type, new.ext) \in Bytes
        BY <2>3, RenamedTypeRange DEF Entry
    <2>5. NormalBase[new.base] \in Bases
        BY EditorAssumption, FormatAssumption DEF Names
    <2>6. renamed(d) \in Entry
        BY <2>3, <2>4, <2>5 DEF Entry
    <2> HIDE DEF renamed
    <2>7. work' \in Work
        BY <2>1, <2>2, <2>3, <2>6 DEF Work
    <2> QED
        BY <1>1, <1>2, <1>4, <2>7, BeginPreserves
<1> QED
    BY <1>3, <1>4 DEF RenameFile

\* A write that goes through, and leaves the work and the place in range.
LEMMA ProceedPreserves ==
    ASSUME IInv, pc \in Writing, NEW next \in Writing, Proceed(next),
           work' \in Work, next = "addData" => pc = "addData"
    PROVE  IInv'
<1>1. image' \in Image
    BY NextWriteType DEF Proceed
<1> QED
    BY <1>1 DEF IInv, TypeOK, InProgress, TransactionRestores, Proceed, Busy, Writing

LEMMA CommitPreserves ==
    ASSUME IInv, pc \in Writing, CommitTransaction
    PROVE  IInv'
<1>1. image' \in Image
    BY NextWriteType DEF CommitTransaction
<1> QED
    BY <1>1 DEF IInv, TypeOK, InProgress, TransactionRestores, CommitTransaction,
                Busy, Writing, Operation

LEMMA StartRollbackPreserves ==
    ASSUME IInv, pc \in Busy, StartRollback, image' \in Image, writer' \in BOOLEAN
    PROVE  IInv'
    BY DEF IInv, TypeOK, InProgress, TransactionRestores, StartRollback, Busy, Writing

\* Ending a rollback, successfully or not, and dying.
LEMMA RollbackPreserves ==
    ASSUME IInv, Rollback \/ RollbackFails \/ Crash
    PROVE  IInv'
<1> USE DEF IInv, TypeOK, InProgress, TransactionRestores, Busy, Writing, Operation
<1>1. pc = "rollback" => backup \in Image
    OBVIOUS
<1>2. CASE Rollback
    BY <1>1, <1>2 DEF Rollback
<1>3. CASE RollbackFails
    <2>1. image' \in Image
        BY <1>1, <1>3, RolledBackToType DEF RollbackFails
    <2> QED
        BY <1>3, <2>1 DEF RollbackFails
<1>4. CASE Crash
    <2>1. image' \in Image
        BY <1>1, <1>4, RolledBackToType DEF Crash
    <2> QED
        BY <1>4, <2>1 DEF Crash
<1> QED
    BY <1>2, <1>3, <1>4

LEMMA InductiveStep == IInv /\ [Next]_vars => IInv'
<1> SUFFICES ASSUME IInv, [Next]_vars PROVE IInv'
    OBVIOUS
<1>1. CASE Open \/ OpenFails
    BY <1>1 DEF Open, OpenFails, IInv, TypeOK, InProgress, TransactionRestores, Busy, Writing,
                Operation
<1>2. CASE Call
    BY <1>2, AddFilePreserves, DeleteFilePreserves, RenameFilePreserves DEF Call
<1>3. CASE BeginFails
    BY <1>3 DEF BeginFails, IInv, TypeOK, InProgress, TransactionRestores
<1>4. CASE WriteData
    <2>1. PICK s \in Least(work.todo) :
            /\ work' = [work EXCEPT !.bam = MarkSectorUsed(@, s), !.todo = @ \ {s}]
            /\ Proceed(IF work.todo = {s} THEN "writeEntry" ELSE "addData")
        BY <1>4 DEF WriteData
    <2>2. pc = "addData" /\ work \in Work
        BY <1>4 DEF WriteData, IInv, InProgress, Writing
    <2>3. s \in FileSectors /\ work.bam \in Bam
        BY <2>1, <2>2 DEF Least, Work
    <2>4. MarkSectorUsed(work.bam, s) \in Bam
        BY <2>3, MarkSectorUsedType
    <2>5. work' \in Work
        BY <2>1, <2>2, <2>4 DEF Work
    <2> QED
        BY <2>1, <2>2, <2>5, ProceedPreserves DEF Writing
<1>5. CASE WriteEntry
    BY <1>5, ProceedPreserves DEF WriteEntry, IInv, InProgress, Writing
<1>6. CASE SaveBam
    BY <1>6, ProceedPreserves DEF SaveBam, IInv, InProgress, Writing
<1>7. CASE CommitRename
    BY <1>7, CommitPreserves DEF CommitRename, Writing
<1>8. CASE VerifyAndCommit
    BY <1>8, CommitPreserves DEF VerifyAndCommit, Writing
<1>9. CASE VerifyFails
    BY <1>9, StartRollbackPreserves DEF VerifyFails, IInv, TypeOK, Busy, Writing
<1>10. CASE WriteFails
    <2>1. image' \in Image
        BY <1>10, NextWriteType DEF WriteFails, IInv, TypeOK
    <2> QED
        BY <1>10, <2>1, StartRollbackPreserves DEF WriteFails, Busy
<1>11. CASE Rollback \/ RollbackFails \/ Crash
    BY <1>11, RollbackPreserves
<1>12. CASE UNCHANGED vars
    BY <1>12 DEF vars, IInv, TypeOK, InProgress, TransactionRestores
<1> QED
    BY <1>1, <1>2, <1>3, <1>4, <1>5, <1>6, <1>7, <1>8, <1>9, <1>10, <1>11, <1>12
    DEF Next, Step

LEMMA InductiveInit == Init => IInv
    BY EditorAssumption
    DEF Init, IInv, TypeOK, InProgress, TransactionRestores, Busy, Writing, Operation

-----------------------------------------------------------------------------
(* The theorems.                                                           *)

\* Every variable of the editor keeps its type; in particular no byte of the
\* image is ever written out of range.
THEOREM TypeCorrect == Spec => []TypeOK
<1>1. IInv => TypeOK
    BY DEF IInv
<1> QED
    BY InductiveInit, InductiveStep, <1>1, PTL DEF Spec

\* Whatever fails, and however often: while no transaction is active the
\* image is the last committed one, and while one is active its snapshot is
\* -- so a rollback that succeeds, at once or after failed ones, restores it.
THEOREM RollbackRestoresCommitted == Spec => []TransactionRestores
<1>1. IInv => TransactionRestores
    BY DEF IInv
<1> QED
    BY InductiveInit, InductiveStep, <1>1, PTL DEF Spec

-----------------------------------------------------------------------------
(***************************************************************************)
(* Directory, chains and BAM stay sound.  For images of any size, whatever *)
(* fails: an operation on a sound image keeps it sound at every write, but *)
(* for the one window of an import; and when nothing but reads can fail,   *)
(* the image is sound whenever no operation runs.                          *)
(***************************************************************************)
-----------------------------------------------------------------------------
(* Chains, of one image.                                                   *)

\* A chain holds its first sector and follows every link.
LEMMA ChainFollowsLinks ==
    ASSUME NEW img \in Image, NEW s \in FileSectors
    PROVE  /\ s \in Chain(img, s)
           /\ \A t \in Chain(img, s) :
                 img.sec[t].next # 0 => img.sec[t].next \in Chain(img, s)
<1>1. s # 0
    BY FormatAssumption DEF FileSectors
<1>2. s \in Chain(img, s)
    BY <1>1 DEF Chain, ClosedFrom
<1>3. ASSUME NEW t \in Chain(img, s), img.sec[t].next # 0
      PROVE  img.sec[t].next \in Chain(img, s)
    <2>1. t \in FileSectors /\ \A S \in ClosedFrom(img.sec, s) : t \in S
        BY <1>1 DEF Chain
    <2>2. img.sec[t].next \in FileSectors
        BY <1>3, <2>1, FormatAssumption DEF Image, Sector, FileSectors
    <2>3. \A S \in ClosedFrom(img.sec, s) : img.sec[t].next \in S
        BY <1>3, <2>1 DEF ClosedFrom
    <2> QED
        BY <1>1, <2>2, <2>3 DEF Chain
<1> QED
    BY <1>2, <1>3

\* It is the least such set.
LEMMA ChainIsLeast ==
    ASSUME NEW img, NEW s \in FileSectors, NEW S \in SUBSET FileSectors,
           s \in S, \A t \in S : img.sec[t].next # 0 => img.sec[t].next \in S
    PROVE  Chain(img, s) \subseteq S
<1>1. s # 0
    BY FormatAssumption DEF FileSectors
<1>2. S \in ClosedFrom(img.sec, s)
    BY DEF ClosedFrom
<1> QED
    BY <1>1, <1>2 DEF Chain

\* Writing sectors outside a chain does not change it.
LEMMA ChainUntouched ==
    ASSUME NEW img \in Image, NEW new \in Image, NEW s \in 0..N,
           \A t \in Chain(img, s) : new.sec[t].next = img.sec[t].next
    PROVE  /\ Chain(new, s) = Chain(img, s)
           /\ ChainLoops(new, s) <=> ChainLoops(img, s)
<1>1. CASE s = 0
    BY <1>1 DEF Chain, ChainLoops
<1>2. CASE s # 0
    <2>1. s \in FileSectors
        BY <1>2, FormatAssumption DEF FileSectors
    <2>2. Chain(img, s) \in SUBSET FileSectors
        BY ChainType
    <2>3. Chain(new, s) \subseteq Chain(img, s)
        BY <2>1, <2>2, ChainFollowsLinks, ChainIsLeast
    <2>4. Chain(img, s) \subseteq Chain(new, s)
        <3> DEFINE S == Chain(new, s)
        <3>1. s \in S /\ \A t \in S : new.sec[t].next # 0 => new.sec[t].next \in S
            BY <2>1, ChainFollowsLinks
        <3>2. \A t \in S : img.sec[t].next # 0 => img.sec[t].next \in S
            BY <2>3, <3>1
        <3>3. S \in SUBSET FileSectors
            BY ChainType
        <3> HIDE DEF S
        <3>4. Chain(img, s) \subseteq S
            BY <2>1, <3>1, <3>2, <3>3, ChainIsLeast
        <3> QED
            BY <3>4 DEF S
    <2>5. Chain(new, s) = Chain(img, s)
        BY <2>3, <2>4
    <2> QED
        BY <2>5 DEF ChainLoops
<1> QED
    BY <1>1, <1>2

\* A chain whose links lead to later sectors only comes to an end.
LEMMA RisingChainEnds ==
    ASSUME NEW img \in Image, NEW s \in FileSectors,
           \A t \in Chain(img, s) : img.sec[t].next = 0 \/ img.sec[t].next > t
    PROVE  ~ ChainLoops(img, s)
<1> SUFFICES ASSUME \A t \in Chain(img, s) : img.sec[t].next # 0
             PROVE  FALSE
    BY DEF ChainLoops
<1> DEFINE C == Chain(img, s)
           Left == {N - t : t \in C}
<1>1. C \subseteq FileSectors
    BY ChainType
<1>2. Left \subseteq Nat /\ Left # {}
    BY <1>1, ChainFollowsLinks, FormatAssumption DEF FileSectors
<1>3. PICK x \in Left : \A y \in Left : <<y, x>> \notin OpToRel(<, Nat)
    BY <1>2, NatLessThanWellFounded, WFMin
<1>4. PICK t \in C : x = N - t
    BY DEF Left
<1>5. img.sec[t].next \in C /\ img.sec[t].next > t
    BY <1>4, ChainFollowsLinks
<1>6. t \in Nat /\ img.sec[t].next \in Nat
    BY <1>1, <1>4, <1>5, FormatAssumption DEF FileSectors
<1>7. N - img.sec[t].next \in Left /\ N - img.sec[t].next < N - t
    BY <1>5, <1>6, FormatAssumption
<1> QED
    BY <1>2, <1>3, <1>4, <1>7 DEF OpToRel

-----------------------------------------------------------------------------
(* Images that are sound because another one is.                           *)

\* The files of new are among those of img, with the same sectors, all used.
Reduced(new, img) ==
    /\ \A d \in LiveSlots(new) :
          d \in LiveSlots(img) /\ new.dir[d].start = img.dir[d].start
    /\ \A d \in LiveSlots(new) : \A t \in Chain(img, img.dir[d].start) :
          new.sec[t].next = img.sec[t].next /\ ~ new.bam.free[t]

\* Where an entry's chain starts.
LEMMA StartType ==
    ASSUME NEW img \in Image, NEW d \in LiveSlots(img)
    PROVE  d \in Slots /\ img.dir[d].start \in 0..N
    BY DEF LiveSlots, Image, Entry

LEMMA ReducedChains ==
    ASSUME NEW img \in Image, NEW new \in Image, Reduced(new, img),
           NEW d \in LiveSlots(new)
    PROVE  /\ Chain(new, new.dir[d].start) = Chain(img, img.dir[d].start)
           /\ ChainLoops(new, new.dir[d].start) <=> ChainLoops(img, img.dir[d].start)
<1>1. d \in LiveSlots(img) /\ new.dir[d].start = img.dir[d].start
    BY DEF Reduced
<1>2. img.dir[d].start \in 0..N
    BY <1>1, StartType
<1>3. \A t \in Chain(img, img.dir[d].start) : new.sec[t].next = img.sec[t].next
    BY DEF Reduced
<1> QED
    BY <1>1, <1>2, <1>3, ChainUntouched

LEMMA ReducedIsSound ==
    ASSUME NEW img \in Image, NEW new \in Image, Sound(img), Reduced(new, img)
    PROVE  Sound(new)
<1>1. ChainsEnd(new)
    <2>1. \A d \in LiveSlots(img) : ~ ChainLoops(img, img.dir[d].start)
        BY DEF Sound, ChainsEnd, ScanFails
    <2>2. \A d \in LiveSlots(new) : ~ ChainLoops(new, new.dir[d].start)
        BY <2>1, ReducedChains DEF Reduced
    <2> QED
        BY <2>2 DEF ChainsEnd, ScanFails
<1>2. FilesAllocated(new)
    <2> SUFFICES ASSUME NEW d \in LiveSlots(new), NEW t \in Chain(new, new.dir[d].start)
                 PROVE  ~ new.bam.free[t]
        BY DEF FilesAllocated, ScanUsedSectors
    <2> QED
        BY ReducedChains DEF Reduced
<1>3. ChainsDisjoint(new)
    <2> SUFFICES ASSUME NEW d \in LiveSlots(new), NEW e \in LiveSlots(new), d # e
                 PROVE  Chain(new, new.dir[d].start) \cap Chain(new, new.dir[e].start) = {}
        BY DEF ChainsDisjoint
    <2>1. d \in LiveSlots(img) /\ e \in LiveSlots(img)
        BY DEF Reduced
    <2>2. Chain(img, img.dir[d].start) \cap Chain(img, img.dir[e].start) = {}
        BY <2>1 DEF Sound, ChainsDisjoint
    <2> QED
        BY <2>2, ReducedChains
<1> QED
    BY <1>1, <1>2, <1>3 DEF Sound

\* The sectors of a sound image's files are used.
LEMMA FilesAreUsed ==
    ASSUME NEW img, Sound(img), NEW d \in LiveSlots(img),
           NEW t \in Chain(img, img.dir[d].start)
    PROVE  ~ img.bam.free[t] /\ t \in FileSectors
<1>1. t \in ScanUsedSectors(img)
    BY DEF ScanUsedSectors
<1>2. t \in FileSectors
    BY ChainType
<1> QED
    BY <1>1, <1>2 DEF Sound, FilesAllocated

\* new is img with a file more, at slot d, in sectors A that were free.
Extended(new, img, d, A) ==
    /\ d \in Slots \ LiveSlots(img)
    /\ \A e \in LiveSlots(new) :
          e = d \/ (e \in LiveSlots(img) /\ new.dir[e].start = img.dir[e].start)
    /\ A \subseteq FileSectors /\ new.dir[d].start \in A
    /\ \A t \in A : /\ img.bam.free[t] /\ ~ new.bam.free[t]
                    /\ \/ new.sec[t].next = 0
                       \/ new.sec[t].next \in A /\ new.sec[t].next > t
    /\ \A t \in FileSectors \ A : /\ new.sec[t].next = img.sec[t].next
                                  /\ ~ img.bam.free[t] => ~ new.bam.free[t]

\* The new file's chain lies in A and ends.
LEMMA ImportedChain ==
    ASSUME NEW img, NEW new \in Image, NEW d, NEW A, Extended(new, img, d, A)
    PROVE  /\ Chain(new, new.dir[d].start) \subseteq A
           /\ ~ ChainLoops(new, new.dir[d].start)
<1> DEFINE s == new.dir[d].start
<1>1. s \in FileSectors /\ A \in SUBSET FileSectors /\ s \in A
    BY DEF Extended
<1>2. \A t \in A : new.sec[t].next = 0 \/ (new.sec[t].next \in A /\ new.sec[t].next > t)
    BY DEF Extended
<1> HIDE DEF s
<1>3. Chain(new, s) \subseteq A
    BY <1>1, <1>2, ChainIsLeast
<1>4. ~ ChainLoops(new, s)
    BY <1>1, <1>2, <1>3, RisingChainEnds
<1> QED
    BY <1>3, <1>4 DEF s

\* The other files' chains are what they were, and stay clear of A.
LEMMA OtherChains ==
    ASSUME NEW img \in Image, NEW new \in Image, NEW d, NEW A, Sound(img),
           Extended(new, img, d, A), NEW e \in LiveSlots(new), e # d
    PROVE  /\ e \in LiveSlots(img)
           /\ Chain(new, new.dir[e].start) = Chain(img, img.dir[e].start)
           /\ ~ ChainLoops(new, new.dir[e].start)
           /\ \A t \in Chain(new, new.dir[e].start) : ~ new.bam.free[t] /\ t \notin A
<1>1. e \in LiveSlots(img) /\ new.dir[e].start = img.dir[e].start
    BY DEF Extended
<1>2. img.dir[e].start \in 0..N
    BY <1>1, StartType
<1>3. \A t \in Chain(img, img.dir[e].start) : ~ img.bam.free[t] /\ t \in FileSectors
    BY <1>1, FilesAreUsed
<1>4. \A t \in Chain(img, img.dir[e].start) : t \notin A
    BY <1>3 DEF Extended
<1>5. \A t \in Chain(img, img.dir[e].start) :
          new.sec[t].next = img.sec[t].next /\ ~ new.bam.free[t]
    BY <1>3, <1>4 DEF Extended
<1>6. ~ ChainLoops(img, img.dir[e].start)
    BY <1>1 DEF Sound, ChainsEnd, ScanFails
<1>7. /\ Chain(new, img.dir[e].start) = Chain(img, img.dir[e].start)
      /\ ~ ChainLoops(new, img.dir[e].start)
    BY <1>2, <1>5, <1>6, ChainUntouched
<1> QED
    BY <1>1, <1>4, <1>5, <1>7

LEMMA ExtendedIsSound ==
    ASSUME NEW img \in Image, NEW new \in Image, NEW d, NEW A, Sound(img),
           Extended(new, img, d, A)
    PROVE  Sound(new)
<1>1. /\ Chain(new, new.dir[d].start) \subseteq A
      /\ ~ ChainLoops(new, new.dir[d].start)
    BY ImportedChain
<1>2. ASSUME NEW e \in LiveSlots(new), e # d
      PROVE  /\ e \in LiveSlots(img)
             /\ Chain(new, new.dir[e].start) = Chain(img, img.dir[e].start)
             /\ ~ ChainLoops(new, new.dir[e].start)
             /\ \A t \in Chain(new, new.dir[e].start) : ~ new.bam.free[t] /\ t \notin A
    BY <1>2, OtherChains
<1>3. ChainsEnd(new)
    BY <1>1, <1>2 DEF ChainsEnd, ScanFails
<1>4. FilesAllocated(new)
    <2> SUFFICES ASSUME NEW e \in LiveSlots(new), NEW t \in Chain(new, new.dir[e].start)
                 PROVE  ~ new.bam.free[t]
        BY DEF FilesAllocated, ScanUsedSectors
    <2>1. CASE e = d
        BY <2>1, <1>1 DEF Extended
    <2>2. CASE e # d
        BY <2>2, <1>2
    <2> QED
        BY <2>1, <2>2
<1>5. ChainsDisjoint(new)
    <2> SUFFICES ASSUME NEW e \in LiveSlots(new), NEW f \in LiveSlots(new), e # f
                 PROVE  Chain(new, new.dir[e].start) \cap Chain(new, new.dir[f].start) = {}
        BY DEF ChainsDisjoint
    <2>1. CASE e # d /\ f # d
        <3>1. Chain(img, img.dir[e].start) \cap Chain(img, img.dir[f].start) = {}
            BY <2>1, <1>2 DEF Sound, ChainsDisjoint
        <3> QED
            BY <2>1, <3>1, <1>2
    <2>2. CASE e = d
        BY <2>2, <1>1, <1>2
    <2>3. CASE f = d
        BY <2>3, <1>1, <1>2
    <2> QED
        BY <2>1, <2>2, <2>3
<1> QED
    BY <1>3, <1>4, <1>5 DEF Sound

-----------------------------------------------------------------------------
(* What each operation has written so far, against the image before it.    *)

\* next is the sector of A after t, 0 when t is the last.
LinksOn(next, t, A) ==
    \/ next = 0 /\ \A u \in A : u =< t
    \/ next \in A /\ next > t /\ \A u \in A : u =< t \/ next =< u

\* work.alloc \ work.todo are the sectors written.
Importing ==
    /\ op.kind = "add" /\ pc \in Writing /\ work \in Work
    /\ work.todo \subseteq work.alloc
    /\ pc # "addData" => work.todo = {}
    /\ work.slot \in Slots \ LiveSlots(before)
    /\ work.entry.start \in work.alloc /\ \A t \in work.alloc : work.entry.start =< t
    /\ work.entry.type = 128 + ExtensionToFileType(op.name.ext)
    /\ \A t \in work.alloc : before.bam.free[t]
    /\ \A t \in work.alloc \ work.todo, u \in work.todo : t < u
    /\ \A t \in FileSectors :
          work.bam.free[t] <=> before.bam.free[t] /\ t \notin work.alloc \ work.todo
    /\ \A t \in FileSectors \ (work.alloc \ work.todo) :
          image.sec[t].next = before.sec[t].next
    /\ \A t \in work.alloc \ work.todo : LinksOn(image.sec[t].next, t, work.alloc)
    /\ image.dir = IF pc \in {"addData", "writeEntry"} THEN before.dir
                   ELSE [before.dir EXCEPT ![work.slot] = work.entry]
    /\ image.bam = IF pc = "verify" THEN work.bam ELSE before.bam

Deleting ==
    /\ op.kind = "delete" /\ pc \in {"writeEntry", "saveBam", "verify"} /\ work \in Work
    /\ work.slot \in LiveSlots(before)
    /\ work.entry = ClearedEntry
    /\ \A t \in FileSectors :
          work.bam.free[t] <=>
              before.bam.free[t] \/ t \in Chain(before, before.dir[work.slot].start)
    /\ image.sec = before.sec
    /\ image.dir = IF pc = "writeEntry" THEN before.dir
                   ELSE [before.dir EXCEPT ![work.slot] = work.entry]
    /\ image.bam = IF pc = "verify" THEN work.bam ELSE before.bam

Renaming ==
    /\ op.kind = "rename" /\ pc = "writeEntry" /\ work \in Work
    /\ work.slot \in LiveSlots(before)
    /\ work.entry.start = before.dir[work.slot].start
    /\ work.entry.type = RenamedType(before.dir[work.slot].type, op.new.ext)
    /\ image = before

\* What a deletion or a renaming makes of the image before it.
Thinned(new, img) == new.sec = img.sec /\ Reduced(new, img)

Progress ==
    /\ pc \in Writing => Importing \/ Deleting \/ Renaming
    /\ pc \in {"closed", "ready"} => before = image
    /\ pc = "rollback" /\ Sound(before) => op.kind = "add" \/ Thinned(image, before)

-----------------------------------------------------------------------------
(* What MarkSectorUsed, MarkSectorsFree and CorrectedCounts do to the bits.*)

LEMMA MarkUsedBits ==
    ASSUME NEW bam \in Bam, NEW s \in FileSectors, NEW t \in FileSectors
    PROVE  MarkSectorUsed(bam, s).free[t] <=> bam.free[t] /\ t # s
<1>1. bam.free \in [FileSectors -> BOOLEAN]
    BY DEF Bam
<1>2. CASE ~ bam.free[s]
    BY <1>2 DEF MarkSectorUsed
<1>3. CASE bam.free[s]
    <2>1. MarkSectorUsed(bam, s).free = [bam.free EXCEPT ![s] = FALSE]
        BY <1>3 DEF MarkSectorUsed, Bam
    <2> QED
        BY <1>1, <2>1
<1> QED
    BY <1>2, <1>3

LEMMA MarkFreeBits ==
    ASSUME NEW bam, NEW S, NEW t \in FileSectors
    PROVE  MarkSectorsFree(bam, S).free[t] <=> bam.free[t] \/ t \in S
    BY DEF MarkSectorsFree

LEMMA CorrectedBits ==
    ASSUME NEW bam \in Bam
    PROVE  CorrectedCounts(bam).free = bam.free
    BY DEF CorrectedCounts, Bam

\* Whether a slot is live is in its entry.
LEMMA LiveSlotsOf ==
    ASSUME NEW img, NEW new, NEW d \in Slots, NEW entry,
           img.dir \in [Slots -> Entry],
           new.dir = [img.dir EXCEPT ![d] = entry]
    PROVE  /\ new.dir[d] = entry
           /\ \A e \in Slots \ {d} : new.dir[e] = img.dir[e]
           /\ d \in LiveSlots(new) <=> IsLive(entry)
           /\ \A e \in Slots \ {d} : e \in LiveSlots(new) <=> e \in LiveSlots(img)
    BY DEF LiveSlots

\* A sound image is a thinned one of itself.
LEMMA ThinnedItself ==
    ASSUME NEW img \in Image, Sound(img)
    PROVE  Thinned(img, img)
    BY FilesAreUsed DEF Thinned, Reduced

-----------------------------------------------------------------------------
(* What the stages say of the image.                                       *)

\* Until its entry is written an import has touched no file.
LEMMA ImportUnseen ==
    ASSUME IInv, Sound(before), Importing, pc \in {"addData", "writeEntry"}
    PROVE  Reduced(image, before)
<1>1. LiveSlots(image) = LiveSlots(before) /\ image.dir = before.dir /\ image.bam = before.bam
    BY DEF Importing, LiveSlots
<1>2. ASSUME NEW d \in LiveSlots(before), NEW t \in Chain(before, before.dir[d].start)
      PROVE  image.sec[t].next = before.sec[t].next /\ ~ image.bam.free[t]
    <2>1. ~ before.bam.free[t] /\ t \in FileSectors
        BY <1>2, FilesAreUsed
    <2> QED
        BY <1>1, <2>1 DEF Importing
<1> QED
    BY <1>1, <1>2 DEF Reduced

\* Once its BAM is written too, the image has one file more.
LEMMA ImportComplete ==
    ASSUME IInv, Importing, pc = "verify"
    PROVE  Extended(image, before, work.slot, work.alloc)
<1>1. /\ work.slot \in Slots \ LiveSlots(before) /\ work.alloc \subseteq FileSectors
      /\ work.todo = {} /\ work.entry.start \in work.alloc
      /\ image.dir = [before.dir EXCEPT ![work.slot] = work.entry]
      /\ image.bam = work.bam
    BY DEF Importing, Work
<1>2. before.dir \in [Slots -> Entry]
    BY DEF IInv, TypeOK, Image
<1>3. \A e \in LiveSlots(image) :
          e = work.slot
              \/ (e \in LiveSlots(before) /\ image.dir[e].start = before.dir[e].start)
    BY <1>1, <1>2, LiveSlotsOf DEF LiveSlots
<1>4. image.dir[work.slot].start \in work.alloc
    BY <1>1, <1>2
<1>5. \A t \in work.alloc :
          /\ before.bam.free[t] /\ ~ image.bam.free[t]
          /\ \/ image.sec[t].next = 0
             \/ image.sec[t].next \in work.alloc /\ image.sec[t].next > t
    BY <1>1 DEF Importing, LinksOn
<1>6. \A t \in FileSectors \ work.alloc :
          /\ image.sec[t].next = before.sec[t].next
          /\ ~ before.bam.free[t] => ~ image.bam.free[t]
    BY <1>1 DEF Importing
<1> QED
    BY <1>1, <1>3, <1>4, <1>5, <1>6 DEF Extended

\* Nothing a deletion writes, or has written, touches another file.
LEMMA DeletionThins ==
    ASSUME IInv, Sound(before), Deleting, NEW new \in NextWrite \cup {image}
    PROVE  Thinned(new, before)
<1> USE DEF IInv, TypeOK
<1>1. /\ work.slot \in LiveSlots(before) /\ work.slot \in Slots
      /\ work.entry = ClearedEntry /\ image.sec = before.sec
      /\ before.dir \in [Slots -> Entry] /\ work.bam \in Bam /\ before.bam \in Bam
    BY DEF Deleting, LiveSlots, Image, Work
<1>2. /\ new.sec = before.sec
      /\ \/ new.dir = before.dir /\ new.bam = before.bam
         \/ /\ new.dir = [before.dir EXCEPT ![work.slot] = ClearedEntry]
            /\ new.bam.free \in {before.bam.free, work.bam.free}
    <2>1. CASE new = image
        BY <1>1, <2>1 DEF Deleting
    <2>2. CASE pc = "writeEntry" /\ new \in NextWrite
        BY <1>1, <2>2 DEF Deleting, NextWrite, Image
    <2>3. CASE pc = "saveBam" /\ new \in NextWrite
        BY <1>1, <2>3 DEF Deleting, NextWrite, Image
    <2>4. CASE pc = "verify" /\ new \in NextWrite
        <3>1. new = [image EXCEPT !.bam = CorrectedCounts(image.bam)] /\ image.bam = work.bam
            BY <2>4 DEF Deleting, NextWrite
        <3>2. new.bam.free = work.bam.free /\ new.sec = image.sec /\ new.dir = image.dir
            BY <1>1, <3>1, CorrectedBits DEF Image
        <3> QED
            BY <1>1, <2>4, <3>2 DEF Deleting
    <2> QED
        BY <2>1, <2>2, <2>3, <2>4 DEF Deleting
<1>3. \A d \in LiveSlots(before) : \A t \in Chain(before, before.dir[d].start) :
          ~ before.bam.free[t] /\ t \in FileSectors
    BY FilesAreUsed
<1>4. CASE new.dir = before.dir /\ new.bam = before.bam
    <2>1. LiveSlots(new) = LiveSlots(before)
        BY <1>4 DEF LiveSlots
    <2> QED
        BY <1>2, <1>3, <1>4, <2>1 DEF Thinned, Reduced
<1>5. CASE /\ new.dir = [before.dir EXCEPT ![work.slot] = ClearedEntry]
           /\ new.bam.free \in {before.bam.free, work.bam.free}
    <2>1. ~ IsLive(ClearedEntry)
        BY DEF IsLive, ClearedEntry
    <2>2. \A d \in LiveSlots(new) :
              /\ d \in LiveSlots(before) /\ d # work.slot
              /\ new.dir[d].start = before.dir[d].start
        BY <1>1, <1>5, <2>1, LiveSlotsOf DEF LiveSlots
    <2>3. ASSUME NEW d \in LiveSlots(new), NEW t \in Chain(before, before.dir[d].start)
          PROVE  ~ new.bam.free[t]
        <3>1. t \notin Chain(before, before.dir[work.slot].start)
            BY <1>1, <2>2, <2>3 DEF Sound, ChainsDisjoint
        <3>2. ~ before.bam.free[t] /\ t \in FileSectors
            BY <1>3, <2>2, <2>3
        <3>3. ~ work.bam.free[t]
            BY <3>1, <3>2 DEF Deleting
        <3> QED
            BY <1>5, <3>2, <3>3
    <2> QED
        BY <1>2, <2>2, <2>3 DEF Thinned, Reduced
<1> QED
    BY <1>2, <1>4, <1>5

\* Nor does a renaming.
LEMMA RenamingThins ==
    ASSUME IInv, Sound(before), Renaming, NEW new \in NextWrite \cup {image}
    PROVE  Thinned(new, before)
<1>1. before \in Image
    BY DEF IInv, TypeOK
<1>2. CASE new = image
    BY <1>1, <1>2, ThinnedItself DEF Renaming
<1>3. CASE new \in NextWrite
    <2>1. new = [before EXCEPT !.dir[work.slot] = work.entry]
        BY <1>3 DEF Renaming, NextWrite
    <2>2. work.slot \in Slots /\ work.slot \in LiveSlots(before)
        BY DEF Renaming, LiveSlots
    <2>3. /\ new.sec = before.sec /\ new.bam = before.bam
          /\ new.dir = [before.dir EXCEPT ![work.slot] = work.entry]
        BY <1>1, <2>1 DEF Image
    <2>4. before.dir \in [Slots -> Entry]
        BY <1>1 DEF Image
    <2>5. \A d \in LiveSlots(new) :
              d \in LiveSlots(before) /\ new.dir[d].start = before.dir[d].start
        BY <2>2, <2>3, <2>4, LiveSlotsOf DEF Renaming, LiveSlots
    <2> QED
        BY <2>3, <2>5, FilesAreUsed DEF Thinned, Reduced
<1> QED
    BY <1>2, <1>3

-----------------------------------------------------------------------------
(* Each action keeps Progress.                                             *)

\* An operation that refuses has not touched the image.
LEMMA RefusalProgress ==
    ASSUME IInv, Progress, NEW call, BeginTransaction(call), Refuse
    PROVE  Progress'
<1>1. before = image /\ before \in Image /\ pc' = "rollback"
    BY DEF BeginTransaction, Progress, IInv, TypeOK, Refuse
<1>2. before' = before /\ image' = image
    BY DEF BeginTransaction
<1>3. Sound(before) => Thinned(image, before)
    BY <1>1, ThinnedItself
<1> QED
    BY <1>1, <1>2, <1>3 DEF Progress, Writing, Thinned, Reduced, LiveSlots

LEMMA AddFileProgress ==
    ASSUME IInv, Progress, NEW name \in Targets, NEW h \in HostFiles \cup {Missing},
           AddFile(name, h)
    PROVE  Progress'
<1> DEFINE call == [kind |-> "add", name |-> name, host |-> h]
<1>1. BeginTransaction(call)
    BY DEF AddFile
<1>2. CASE Refuse
    BY <1>1, <1>2, RefusalProgress
<1>3. CASE ~ Refuse
    <2>1. PICK d \in FindFreeDirectoryEntry(image), first \in Least(Allocated(h)) :
                work' = [slot |-> d, entry |-> NewEntry(name, first),
                         bam |-> image.bam,
                         alloc |-> Allocated(h), todo |-> Allocated(h)]
        BY <1>3 DEF AddFile
    <2>2. pc' = "addData" /\ op'.kind = "add" /\ UNCHANGED <<image, before>> /\ before = image
        BY <1>1, <1>3 DEF AddFile, BeginTransaction, Progress
    <2>3. IInv'
        BY AddFilePreserves
    <2>4. work' \in Work
        BY <2>2, <2>3 DEF IInv, InProgress, Writing
    <2>5. d \in Slots \ LiveSlots(image)
        BY <2>1 DEF FindFreeDirectoryEntry, Least
    <2>6. \A t \in Allocated(h) : image.bam.free[t]
        BY DEF Allocated, FreeSectors
    <2>7. /\ work'.entry.start \in Allocated(h)
          /\ \A t \in Allocated(h) : work'.entry.start =< t
          /\ work'.entry.type = 128 + ExtensionToFileType(name.ext)
        BY <2>1 DEF NewEntry, Least
    <2>8. /\ work'.slot = d /\ work'.bam = image.bam
          /\ work'.alloc = Allocated(h) /\ work'.todo = Allocated(h)
        BY <2>1
    <2>9. LiveSlots(before)' = LiveSlots(image)
        BY <2>2 DEF LiveSlots
    <2>10. op'.name = name
        BY <1>1 DEF BeginTransaction
    <2>11. Importing'
        BY <2>10, <2>2, <2>4, <2>5, <2>6, <2>7, <2>8, <2>9 DEF Importing, Writing
    <2> QED
        BY <2>2, <2>11 DEF Progress
<1> QED
    BY <1>2, <1>3

LEMMA DeleteFileProgress ==
    ASSUME IInv, Progress, NEW name \in Targets, DeleteFile(name)
    PROVE  Progress'
<1> DEFINE call == [kind |-> "delete", name |-> name]
<1> DEFINE freed(d) == MarkSectorsFree(image.bam, Chain(image, image.dir[d].start))
<1>1. BeginTransaction(call)
    BY DEF DeleteFile
<1>2. CASE Refuse
    BY <1>1, <1>2, RefusalProgress
<1>3. CASE ~ Refuse
    <2>1. PICK d \in FindEntryByName(image, name) :
                work' = [slot |-> d, entry |-> ClearedEntry, bam |-> freed(d),
                         alloc |-> {}, todo |-> {}]
        BY <1>3 DEF DeleteFile
    <2>2. pc' = "writeEntry" /\ op'.kind = "delete" /\ UNCHANGED <<image, before>>
          /\ before = image
        BY <1>1, <1>3 DEF DeleteFile, BeginTransaction, Progress
    <2>3. IInv'
        BY DeleteFilePreserves
    <2>4. work' \in Work
        BY <2>2, <2>3 DEF IInv, InProgress, Writing
    <2>5. d \in LiveSlots(image)
        BY <2>1 DEF FindEntryByName, Least
    <2> HIDE DEF freed
    <2>6. work'.slot = d /\ work'.entry = ClearedEntry /\ work'.bam = freed(d)
        BY <2>1
    <2>7. \A t \in FileSectors :
              freed(d).free[t] <=> image.bam.free[t] \/ t \in Chain(image, image.dir[d].start)
        BY MarkFreeBits DEF freed
    <2>8. LiveSlots(before)' = LiveSlots(image)
        BY <2>2 DEF LiveSlots
    <2>9. \A e : Chain(before, before.dir[e].start)' = Chain(image, image.dir[e].start)
        BY <2>2 DEF Chain, ClosedFrom
    <2>10. Deleting'
        BY <2>2, <2>4, <2>5, <2>6, <2>7, <2>8, <2>9 DEF Deleting
    <2> QED
        BY <2>2, <2>10 DEF Progress
<1> QED
    BY <1>2, <1>3

LEMMA RenameFileProgress ==
    ASSUME IInv, Progress, NEW name \in Targets, NEW new \in Targets,
           RenameFile(name, new)
    PROVE  Progress'
<1> DEFINE call == [kind |-> "rename", name |-> name, new |-> new]
<1> DEFINE renamed(d) ==
        [image.dir[d] EXCEPT !.type = RenamedType(@, new.ext),
                             !.base = NormalBase[new.base]]
<1>1. BeginTransaction(call)
    BY DEF RenameFile
<1>2. CASE Refuse
    BY <1>1, <1>2, RefusalProgress
<1>3. CASE ~ Refuse
    <2>1. PICK d \in FindEntryByName(image, name) :
                work' = [slot |-> d, entry |-> renamed(d), bam |-> image.bam,
                         alloc |-> {}, todo |-> {}]
        BY <1>3 DEF RenameFile
    <2>2. pc' = "writeEntry" /\ op'.kind = "rename" /\ op'.new = new /\ UNCHANGED <<image, before>>
          /\ before = image
        <3>1. op' = call /\ UNCHANGED <<image, before>> /\ before = image
            BY <1>1 DEF BeginTransaction, Progress
        <3>2. op'.kind = "rename" /\ op'.new = new
            BY <3>1
        <3> QED
            BY <1>3, <3>1, <3>2 DEF RenameFile
    <2>3. IInv'
        BY RenameFilePreserves
    <2>4. work' \in Work
        BY <2>2, <2>3 DEF IInv, InProgress, Writing
    <2>5. d \in LiveSlots(image) /\ image.dir[d] \in Entry
        BY <2>1 DEF FindEntryByName, Least, LiveSlots, IInv, TypeOK, Image
    <2>6. /\ renamed(d).start = image.dir[d].start
          /\ renamed(d).type = RenamedType(image.dir[d].type, new.ext)
        BY <2>5 DEF Entry
    <2> HIDE DEF renamed
    <2>7. work'.slot = d /\ work'.entry = renamed(d)
        BY <2>1
    <2>8. LiveSlots(before)' = LiveSlots(image)
        BY <2>2 DEF LiveSlots
    <2>9. Renaming'
        BY <2>2, <2>4, <2>5, <2>6, <2>7, <2>8 DEF Renaming
    <2> QED
        BY <2>2, <2>9 DEF Progress
<1> QED
    BY <1>2, <1>3

\* A sector of the import, linked to a later one or the last.
LEMMA WriteDataProgress ==
    ASSUME IInv, Progress, WriteData
    PROVE  Progress'
<1> USE DEF IInv, TypeOK
<1>1. pc = "addData" /\ Importing /\ work \in Work
    BY DEF WriteData, Progress, Importing, Deleting, Renaming, Writing
<1>2. PICK s \in Least(work.todo) :
          /\ work' = [work EXCEPT !.bam = MarkSectorUsed(@, s), !.todo = @ \ {s}]
          /\ Proceed(IF work.todo = {s} THEN "writeEntry" ELSE "addData")
    BY DEF WriteData
<1>3. /\ work.todo \subseteq work.alloc /\ work.alloc \subseteq FileSectors
      /\ s \in work.todo /\ s \in FileSectors /\ work.bam \in Bam
    BY <1>1, <1>2 DEF Importing, Work, Least
<1>4. /\ pc' = IF work.todo = {s} THEN "writeEntry" ELSE "addData"
      /\ op' = op /\ before' = before /\ image' \in NextWrite
    BY <1>2 DEF Proceed
<1>5. PICK next \in LinkAfter(s) : image' = [image EXCEPT !.sec[s] = DataSector(s, next)]
    <2>1. image' \in UNION {{[image EXCEPT !.sec[r] = DataSector(r, next)] :
                                next \in LinkAfter(r)} : r \in Least(work.todo)}
        BY <1>1, <1>4 DEF NextWrite
    <2>2. PICK r \in Least(work.todo) :
              \E next \in LinkAfter(r) : image' = [image EXCEPT !.sec[r] = DataSector(r, next)]
        BY <2>1
    <2>3. r = s
        BY <1>2, <1>3, <2>2 DEF Least, FileSectors
    <2> QED
        BY <2>2, <2>3
<1>6. LinksOn(next, s, work.alloc)
    <2>1. \A u \in work.todo : s =< u
        BY <1>2 DEF Least
    <2>2. \A u \in work.alloc \ work.todo : u < s
        BY <1>1, <1>3 DEF Importing
    <2>3. CASE work.todo = {s}
        <3>1. next = 0
            BY <1>5, <2>3 DEF LinkAfter
        <3> QED
            BY <1>3, <2>2, <2>3, <3>1, FormatAssumption DEF LinksOn, FileSectors
    <2>4. CASE work.todo # {s}
        <3>1. next \in work.todo /\ next # s /\ \A u \in work.todo \ {s} : next =< u
            BY <1>5, <2>4 DEF LinkAfter, Least
        <3>2. next \in Int /\ s \in Int /\ \A u \in work.alloc : u \in Int
            BY <1>3, <3>1, FormatAssumption DEF FileSectors
        <3>3. next > s
            <4>1. s =< next
                BY <2>1, <3>1
            <4> QED
                BY <3>1, <3>2, <4>1
        <3>4. ASSUME NEW u \in work.alloc PROVE u =< s \/ next =< u
            <4>1. CASE u \in work.todo /\ u # s
                BY <3>1, <4>1
            <4>2. CASE u \notin work.todo
                BY <2>2, <3>2, <4>2
            <4> QED
                BY <3>2, <4>1, <4>2
        <3> QED
            BY <1>3, <3>1, <3>3, <3>4 DEF LinksOn
    <2> QED
        BY <2>3, <2>4
<1>7. /\ image'.dir = image.dir /\ image'.bam = image.bam
      /\ image'.sec = [image.sec EXCEPT ![s] = DataSector(s, next)]
      /\ image.sec \in [FileSectors -> Sector]
    BY <1>5 DEF Image
<1>8. /\ image'.sec[s].next = next
      /\ \A t \in FileSectors \ {s} : image'.sec[t].next = image.sec[t].next
    BY <1>3, <1>7 DEF DataSector
<1>9. /\ work'.alloc = work.alloc /\ work'.todo = work.todo \ {s}
      /\ work'.slot = work.slot /\ work'.entry = work.entry
      /\ work'.bam = MarkSectorUsed(work.bam, s)
    BY <1>1, <1>2 DEF Work
<1>10. work'.alloc \ work'.todo = (work.alloc \ work.todo) \cup {s}
    BY <1>3, <1>9
<1>11. work' \in Work
    BY <1>1, <1>3, <1>9, <1>2, MarkSectorUsedType DEF Work
<1>12. \A t \in FileSectors :
          work'.bam.free[t] <=> before'.bam.free[t] /\ t \notin work'.alloc \ work'.todo
    BY <1>1, <1>3, <1>4, <1>9, <1>10, MarkUsedBits DEF Importing
<1>13. /\ \A t \in FileSectors \ (work'.alloc \ work'.todo) :
              image'.sec[t].next = before'.sec[t].next
       /\ \A t \in work'.alloc \ work'.todo : LinksOn(image'.sec[t].next, t, work'.alloc)
    BY <1>1, <1>3, <1>4, <1>6, <1>8, <1>9, <1>10 DEF Importing
<1>14. /\ work'.todo \subseteq work'.alloc
       /\ pc' # "addData" => work'.todo = {}
       /\ op'.kind = "add" /\ pc' \in {"addData", "writeEntry"}
       /\ \A t \in work'.alloc : before'.bam.free[t]
       /\ work'.entry.start \in work'.alloc
       /\ \A t \in work'.alloc : work'.entry.start =< t
       /\ work'.entry.type = 128 + ExtensionToFileType(op'.name.ext)
    BY <1>1, <1>3, <1>4, <1>9 DEF Importing
<1>15. LiveSlots(before)' = LiveSlots(before)
    BY <1>4 DEF LiveSlots
<1>16. image'.dir = before'.dir /\ image'.bam = before'.bam
    BY <1>1, <1>4, <1>7 DEF Importing
<1>17. \A t \in work'.alloc \ work'.todo, u \in work'.todo : t < u
    BY <1>1, <1>2, <1>3, <1>9, <1>10, FormatAssumption DEF Importing, Least, FileSectors
<1>18. Importing'
    BY <1>1, <1>9, <1>11, <1>12, <1>13, <1>14, <1>15, <1>16, <1>17
    DEF Importing, Writing, LinksOn
<1> QED
    BY <1>14, <1>18 DEF Progress

\* The directory's and the BAM's write of an import or a deletion.
LEMMA WriteSystemProgress ==
    ASSUME IInv, Progress, WriteEntry \/ SaveBam
    PROVE  Progress'
<1>1. /\ work' = work /\ op' = op /\ before' = before /\ image' \in NextWrite
      /\ \/ pc = "writeEntry" /\ pc' = "saveBam"
         \/ pc = "saveBam" /\ pc' = "verify"
      /\ op.kind # "rename" \/ pc = "saveBam"
    BY DEF WriteEntry, SaveBam, Proceed
<1>2. /\ image'.sec = image.sec
      /\ pc = "writeEntry" => /\ image'.dir = [image.dir EXCEPT ![work.slot] = work.entry]
                              /\ image'.bam = image.bam
      /\ pc = "saveBam" => image'.dir = image.dir /\ image'.bam = work.bam
    BY <1>1 DEF NextWrite, IInv, TypeOK, Image
<1>3. Importing \/ Deleting
    BY <1>1 DEF Progress, Renaming, Writing
<1>4. LiveSlots(before)' = LiveSlots(before)
      /\ Chain(before, before.dir[work.slot].start)' = Chain(before, before.dir[work.slot].start)
    BY <1>1 DEF LiveSlots, Chain, ClosedFrom
<1>5. CASE Importing
    <2>1. /\ image'.dir = [before'.dir EXCEPT ![work'.slot] = work'.entry]
          /\ image'.bam = IF pc' = "verify" THEN work'.bam ELSE before'.bam
        BY <1>1, <1>2, <1>5 DEF Importing
    <2>2. Importing'
        BY <1>1, <1>2, <1>4, <1>5, <2>1 DEF Importing, Writing
    <2> QED
        BY <1>1, <2>2 DEF Progress
<1>6. CASE Deleting
    <2>1. /\ image'.dir = [before'.dir EXCEPT ![work'.slot] = work'.entry]
          /\ image'.bam = IF pc' = "verify" THEN work'.bam ELSE before'.bam
        BY <1>1, <1>2, <1>6 DEF Deleting
    <2>2. Deleting'
        BY <1>1, <1>2, <1>4, <1>6, <2>1 DEF Deleting
    <2> QED
        BY <1>1, <2>2 DEF Progress
<1> QED
    BY <1>3, <1>5, <1>6

\* A write that fails, done or not, and a check that does.
LEMMA RollingBackProgress ==
    ASSUME IInv, Progress, pc \in Writing, StartRollback, image' \in NextWrite \cup {image}
    PROVE  Progress'
<1>1. pc' = "rollback" /\ before' = before /\ op' = op
    BY DEF StartRollback
<1>2. Sound(before) => op.kind = "add" \/ Thinned(image', before)
    BY DeletionThins, RenamingThins DEF Progress, Importing
<1>3. Sound(before)' => Sound(before)
    BY <1>1 DEF Sound, ChainsEnd, ScanFails, FilesAllocated, ChainsDisjoint, LiveSlots,
                ScanUsedSectors, ChainLoops, Chain, ClosedFrom
<1>4. Thinned(image', before) => Thinned(image, before)'
    BY <1>1 DEF Thinned, Reduced, LiveSlots, Chain, ClosedFrom
<1> QED
    BY <1>1, <1>2, <1>3, <1>4 DEF Progress, Writing

LEMMA ProgressStep == IInv /\ Progress /\ [Next]_vars => Progress'
<1> SUFFICES ASSUME IInv, Progress, [Next]_vars PROVE Progress'
    OBVIOUS
<1>1. CASE Call
    BY <1>1, AddFileProgress, DeleteFileProgress, RenameFileProgress DEF Call
<1>2. CASE Open \/ OpenFails \/ BeginFails
    BY <1>2 DEF Open, OpenFails, BeginFails, Progress, Writing
<1>3. CASE CommitRename \/ VerifyAndCommit
    BY <1>3 DEF CommitRename, VerifyAndCommit, CommitTransaction, Progress, Writing
<1>4. CASE VerifyFails
    BY <1>4, RollingBackProgress DEF VerifyFails, Writing
<1>5. CASE WriteFails
    BY <1>5, RollingBackProgress DEF WriteFails
<1>6. CASE Rollback \/ RollbackFails \/ Crash
    BY <1>6 DEF Rollback, RollbackFails, Crash, Progress, Writing
<1>7. CASE UNCHANGED vars
    <2>1. UNCHANGED <<image, pc, op, work, before>>
        BY <1>7 DEF vars
    <2> QED
        BY <2>1 DEF Progress, Importing, Deleting, Renaming, Thinned, Reduced, Sound,
                    ChainsEnd, ScanFails, FilesAllocated, ChainsDisjoint, LiveSlots,
                    ScanUsedSectors, ChainLoops, Chain, ClosedFrom
<1> QED
    BY <1>1, <1>2, <1>3, <1>4, <1>5, <1>6, <1>7, WriteDataProgress, WriteSystemProgress
    DEF Next, Step

-----------------------------------------------------------------------------
(* The theorems.                                                           *)

LEMMA ProgressInit == Init => Progress
    BY DEF Init, Progress, Writing

LEMMA Always == Spec => [](IInv /\ Progress)
    BY InductiveInit, InductiveStep, ProgressInit, ProgressStep, PTL DEF Spec

\* A rollback stopped anywhere: the directory comes back after the BAM.
LEMMA PartialRollback ==
    ASSUME IInv, Sound(before), backup = before, Thinned(image, before),
           NEW n \in 0..(N + 2)
    PROVE  Sound(RolledBackTo(n))
<1> DEFINE new == RolledBackTo(n)
<1>1. image \in Image /\ before \in Image /\ new \in Image
    BY RolledBackToType DEF IInv, TypeOK
<1>2. /\ new.sec = [s \in FileSectors |->
                        IF (IF s =< BamAt THEN s ELSE s + 2) =< n
                        THEN before.sec[s] ELSE image.sec[s]]
      /\ new.bam = IF BamAt + 1 =< n THEN before.bam ELSE image.bam
      /\ new.dir = IF BamAt + 2 =< n THEN before.dir ELSE image.dir
    BY DEF RolledBackTo
<1>3. BamAt + 2 =< n => BamAt + 1 =< n
    BY FormatAssumption
<1> HIDE DEF new
<1>4. \A t \in FileSectors : new.sec[t] = before.sec[t]
    BY <1>2 DEF Thinned
<1>5. \A d \in LiveSlots(before) : \A t \in Chain(before, before.dir[d].start) :
          ~ before.bam.free[t] /\ t \in FileSectors
    BY FilesAreUsed
<1>6. ASSUME new.dir = before.dir /\ new.bam = before.bam
      PROVE  Sound(new)
    <2>1. LiveSlots(new) = LiveSlots(before)
        BY <1>6 DEF LiveSlots
    <2>2. Reduced(new, before)
        BY <1>4, <1>5, <1>6, <2>1 DEF Reduced
    <2> QED
        BY <1>1, <2>2, ReducedIsSound
<1>7. ASSUME new.dir = image.dir /\ new.bam \in {before.bam, image.bam}
      PROVE  Sound(new)
    <2>1. LiveSlots(new) = LiveSlots(image)
        BY <1>7 DEF LiveSlots
    <2>2. \A d \in LiveSlots(new) :
              /\ d \in LiveSlots(before) /\ new.dir[d].start = before.dir[d].start
              /\ \A t \in Chain(before, before.dir[d].start) : ~ image.bam.free[t]
        BY <1>7, <2>1 DEF Thinned, Reduced
    <2>3. Reduced(new, before)
        BY <1>4, <1>5, <1>7, <2>2 DEF Reduced
    <2> QED
        BY <1>1, <2>3, ReducedIsSound
<1>8. Sound(new)
    BY <1>2, <1>3, <1>6, <1>7
<1> QED
    BY <1>8 DEF new

\* What the stage an operation has reached makes of the image.
LEMMA ProgressIsSafe == IInv /\ Progress => InterruptedSafely
<1> SUFFICES ASSUME IInv, Progress, pc \in Busy, Sound(before), backup = before,
                    op.kind = "add" => pc \notin {"saveBam", "rollback"}
             PROVE  /\ Sound(image)
                    /\ pc = "rollback" => \A n \in 0..(N + 2) : Sound(RolledBackTo(n))
    BY DEF InterruptedSafely
<1>1. image \in Image /\ before \in Image
    BY DEF IInv, TypeOK
<1>2. CASE pc = "rollback"
    <2>1. Thinned(image, before)
        BY <1>2 DEF Progress
    <2>2. Sound(image)
        BY <1>1, <2>1, ReducedIsSound DEF Thinned
    <2> QED
        BY <2>1, <2>2, PartialRollback
<1>3. CASE pc \in Writing
    <2>1. CASE Importing /\ pc \in {"addData", "writeEntry"}
        BY <1>1, <1>3, <2>1, ImportUnseen, ReducedIsSound DEF Writing
    <2>2. CASE Importing /\ pc = "verify"
        BY <1>1, <1>3, <2>2, ImportComplete, ExtendedIsSound
    <2>3. CASE Deleting \/ Renaming
        <3>1. Thinned(image, before)
            BY <2>3, DeletionThins, RenamingThins
        <3> QED
            BY <1>1, <1>3, <3>1, ReducedIsSound DEF Thinned, Writing
    <2>4. pc # "rollback"
        BY <1>3 DEF Writing
    <2> QED
        BY <1>3, <2>1, <2>2, <2>3, <2>4 DEF Progress, Importing, Writing
<1> QED
    BY <1>2, <1>3 DEF Busy

\* A kill at any write of an operation on a sound image, or at any point of its
\* rollback, leaves a sound image, but in the one window of an import --
\* whatever fails, and whatever has failed before.
THEOREM InterruptsAreSafe == Spec => []InterruptedSafely
    BY Always, ProgressIsSafe, PTL

\* The state between operations, when nothing but reads can fail.
Calm ==
    /\ pc # "closed" => writer = TRUE
    /\ Sound(before)
    /\ pc \in Busy => backup = before
    /\ pc \notin Busy => backup = NoBackup

\* What a successful operation leaves.
LEMMA CommitIsSound ==
    ASSUME IInv, Progress, Sound(before), CommitRename \/ VerifyAndCommit
    PROVE  Sound(image')
<1>1. image \in Image /\ before \in Image /\ pc \in Writing /\ image' \in NextWrite
    BY DEF IInv, TypeOK, CommitRename, VerifyAndCommit, CommitTransaction, Writing
<1>2. image' \in Image
    BY <1>1, NextWriteType
<1>3. CASE Deleting \/ Renaming
    BY <1>1, <1>2, <1>3, DeletionThins, RenamingThins, ReducedIsSound DEF Thinned
<1>4. CASE Importing
    <2>1. pc = "verify"
        BY <1>4 DEF Importing, CommitRename, VerifyAndCommit
    <2>2. Sound(image)
        BY <1>1, <1>4, <2>1, ImportComplete, ExtendedIsSound
    <2>3. image' = [image EXCEPT !.bam = CorrectedCounts(image.bam)]
        BY <1>1, <2>1 DEF NextWrite
    <2>4. image'.sec = image.sec /\ image'.dir = image.dir /\ image'.bam.free = image.bam.free
        BY <1>1, <2>3, CorrectedBits DEF Image
    <2>5. LiveSlots(image') = LiveSlots(image)
        BY <2>4 DEF LiveSlots
    <2>6. Reduced(image', image)
        BY <2>2, <2>4, <2>5, FilesAreUsed DEF Reduced
    <2> QED
        BY <1>1, <1>2, <2>2, <2>6, ReducedIsSound
<1> QED
    BY <1>1, <1>3, <1>4 DEF Progress

\* Soundness is of one image, whatever the step that evaluates it.
LEMMA SoundOf ==
    ASSUME NEW img, before' = img, Sound(img)
    PROVE  Sound(before)'
    BY DEF Sound, ChainsEnd, ScanFails, FilesAllocated, ChainsDisjoint, LiveSlots,
           ScanUsedSectors, ChainLoops, Chain, ClosedFrom

LEMMA CalmStep ==
    Faults \subseteq {"read"} /\ IInv /\ Progress /\ Calm /\ [Next]_vars => Calm'
<1> SUFFICES ASSUME Faults \subseteq {"read"}, IInv, Progress, Calm, [Next]_vars
             PROVE  Calm'
    OBVIOUS
<1>1. before' = before => Sound(before)'
    BY SoundOf DEF Calm
<1>2. ASSUME NEW call, BeginTransaction(call), pc' \in Busy
      PROVE  Calm'
    BY <1>1, <1>2 DEF BeginTransaction, Snapshot, Calm, Progress, Busy, Writing
<1>3. CASE Call
    <2>1. \E call : BeginTransaction(call)
        BY <1>3 DEF Call, AddFile, DeleteFile, RenameFile
    <2>2. pc' \in Busy
        BY <1>3 DEF Call, AddFile, DeleteFile, RenameFile, Refuse, Busy, Writing
    <2> QED
        BY <1>2, <2>1, <2>2
<1>4. CASE Open \/ OpenFails \/ BeginFails
    BY <1>1, <1>4 DEF Open, OpenFails, BeginFails, Calm, Busy, Writing
<1>5. CASE WriteData \/ WriteEntry \/ SaveBam
    BY <1>1, <1>5 DEF WriteData, WriteEntry, SaveBam, Proceed, Calm, Busy, Writing
<1>6. CASE CommitRename \/ VerifyAndCommit
    <2>1. Sound(image')
        BY <1>6, CommitIsSound DEF Calm
    <2>2. /\ writer' = TRUE /\ pc' = "ready" /\ backup' = NoBackup /\ before' = image'
        BY <1>6 DEF CommitRename, VerifyAndCommit, CommitTransaction
    <2> QED
        BY <2>1, <2>2, SoundOf DEF Calm, Busy, Writing
<1>7. CASE VerifyFails
    BY <1>1, <1>7 DEF VerifyFails, StartRollback, Calm, Busy, Writing
<1>8. CASE Rollback
    <2>1. /\ writer' = writer /\ pc' = "ready" /\ backup' = NoBackup
          /\ before' = before /\ pc # "closed"
        BY <1>8 DEF Rollback, Calm, Busy
    <2> QED
        BY <1>1, <2>1 DEF Calm, Busy, Writing
<1>9. ~ WriteFails /\ ~ RollbackFails /\ ~ Crash
    BY DEF WriteFails, RollbackFails, Crash, Calm
<1>10. CASE UNCHANGED vars
    BY <1>1, <1>10 DEF vars, Calm
<1> QED
    BY <1>3, <1>4, <1>5, <1>6, <1>7, <1>8, <1>9, <1>10 DEF Next, Step

\* On sound images, when nothing but reads can fail, directory and BAM agree
\* whenever no operation runs: no sequence of imports, deletions and renamings
\* leaves a loop, a file in free sectors or a sector of two files.
THEOREM SoundBetweenOperations ==
    ASSUME \A img \in InitialImages : Sound(img), Faults \subseteq {"read"}
    PROVE  Spec => []SoundAtRest
<1>1. Init => Calm
    BY DEF Init, Calm, Busy, Writing
<1>2. IInv /\ Progress /\ Calm /\ [Next]_vars => Calm'
    BY CalmStep
<1>3. Progress /\ Calm => SoundAtRest
    BY DEF SoundAtRest, AtRest, Progress, Calm
<1> QED
    BY <1>1, <1>2, <1>3, Always, PTL DEF Spec

-----------------------------------------------------------------------------
(* What an operation touches, under every failure.                         *)

\* A sector that was used when the operation began is as it was.
UsedKept ==
    pc \in Writing =>
        \A s \in FileSectors : ~ before.bam.free[s] => image.sec[s] = before.sec[s]

\* The sector an import writes was free.
LEMMA DataGoesToFree ==
    ASSUME IInv, Progress, UsedKept, pc = "addData", NEW new \in NextWrite
    PROVE  /\ new.dir = image.dir /\ new.bam = image.bam
           /\ \A s \in FileSectors : ~ before.bam.free[s] => new.sec[s] = before.sec[s]
<1>1. image \in Image /\ Importing /\ pc \in Writing
    BY DEF IInv, TypeOK, Progress, Deleting, Renaming, Writing
<1>2. PICK r \in Least(work.todo) :
          \E next \in LinkAfter(r) : new = [image EXCEPT !.sec[r] = DataSector(r, next)]
    <2>1. new \in UNION {{[image EXCEPT !.sec[s] = DataSector(s, next)] :
                             next \in LinkAfter(s)} : s \in Least(work.todo)}
        BY DEF NextWrite
    <2> QED
        BY <2>1
<1>3. PICK next \in LinkAfter(r) : new = [image EXCEPT !.sec[r] = DataSector(r, next)]
    BY <1>2
<1>4. before.bam.free[r]
    BY <1>1, <1>2 DEF Importing, Least
<1>5. /\ new.sec = [image.sec EXCEPT ![r] = DataSector(r, next)]
      /\ new.dir = image.dir /\ new.bam = image.bam
    BY <1>1, <1>3 DEF Image
<1>6. \A s \in FileSectors : s # r => new.sec[s] = image.sec[s]
    BY <1>1, <1>5 DEF Image
<1> QED
    BY <1>1, <1>4, <1>5, <1>6 DEF UsedKept

LEMMA UsedKeptStep == IInv /\ Progress /\ UsedKept /\ [Next]_vars => UsedKept'
<1> SUFFICES ASSUME IInv, Progress, UsedKept, [Next]_vars PROVE UsedKept'
    OBVIOUS
<1>1. CASE Call
    <2>1. image' = image /\ before' = before /\ before = image
        BY <1>1 DEF Call, AddFile, DeleteFile, RenameFile, BeginTransaction, Progress
    <2> QED
        BY <2>1 DEF UsedKept
<1>2. CASE WriteData
    <2>1. pc = "addData" /\ image' \in NextWrite /\ before' = before
        BY <1>2 DEF WriteData, Proceed
    <2> QED
        BY <2>1, DataGoesToFree DEF UsedKept
<1>3. CASE WriteEntry \/ SaveBam
    <2>1. pc \in Writing /\ pc # "addData" /\ image' \in NextWrite /\ before' = before
        BY <1>3 DEF WriteEntry, SaveBam, Proceed, Writing
    <2>2. image'.sec = image.sec
        BY <2>1 DEF NextWrite, IInv, TypeOK, Image
    <2> QED
        BY <2>1, <2>2 DEF UsedKept
<1>4. CASE Open \/ OpenFails \/ BeginFails \/ CommitRename \/ VerifyAndCommit
           \/ VerifyFails \/ WriteFails \/ Rollback \/ RollbackFails \/ Crash
    <2>1. pc' \notin Writing
        BY <1>4 DEF Open, OpenFails, BeginFails, CommitRename, VerifyAndCommit,
           CommitTransaction, VerifyFails, WriteFails, StartRollback, Rollback,
           RollbackFails, Crash, Writing
    <2> QED
        BY <2>1 DEF UsedKept
<1>5. CASE UNCHANGED vars
    BY <1>5 DEF vars, UsedKept, Writing
<1> QED
    BY <1>1, <1>2, <1>3, <1>4, <1>5 DEF Next, Step

\* What the stages of each operation say of the directory and of the bits.
LEMMA StagesTouch ==
    ASSUME IInv, Progress, pc \in Writing
    PROVE  /\ work \in Work
           /\ \A d \in Slots \ {work.slot} : image.dir[d] = before.dir[d]
           /\ \A s \in FileSectors : ~ before.bam.free[s] =>
                 /\ image.bam.free[s] =>
                       s \in Chain(before, before.dir[work.slot].start)
                 /\ pc = "saveBam" /\ work.bam.free[s] =>
                       s \in Chain(before, before.dir[work.slot].start)
<1>1. before.dir \in [Slots -> Entry]
    BY DEF IInv, TypeOK, Image
<1>2. CASE Importing
    BY <1>1, <1>2 DEF Importing
<1>3. CASE Deleting
    BY <1>1, <1>3 DEF Deleting
<1>4. CASE Renaming
    BY <1>1, <1>4 DEF Renaming
<1> QED
    BY <1>2, <1>3, <1>4 DEF Progress

\* Whatever it writes next, or has written.
LEMMA WritesTouchOnly ==
    ASSUME IInv, Progress, UsedKept, pc \in Writing, NEW new \in NextWrite \cup {image}
    PROVE  OnlyTouched(before, new, work.slot)
<1>1. /\ image \in Image /\ work \in Work
      /\ \A d \in Slots \ {work.slot} : image.dir[d] = before.dir[d]
      /\ \A s \in FileSectors : ~ before.bam.free[s] /\ image.bam.free[s] =>
            s \in Chain(before, before.dir[work.slot].start)
      /\ \A s \in FileSectors : ~ before.bam.free[s] /\ pc = "saveBam" /\ work.bam.free[s] =>
            s \in Chain(before, before.dir[work.slot].start)
    BY StagesTouch DEF IInv, TypeOK
<1>2. CASE new = image
    BY <1>1, <1>2 DEF OnlyTouched, UsedKept
<1>3. CASE pc = "addData" /\ new \in NextWrite
    BY <1>1, <1>3, DataGoesToFree DEF OnlyTouched
<1>4. CASE pc = "writeEntry" /\ new \in NextWrite
    <2>1. new = [image EXCEPT !.dir[work.slot] = work.entry]
        BY <1>4 DEF NextWrite
    <2>2. /\ new.sec = image.sec /\ new.bam = image.bam
          /\ \A d \in Slots \ {work.slot} : new.dir[d] = image.dir[d]
        BY <1>1, <2>1 DEF Image
    <2> QED
        BY <1>1, <2>2 DEF OnlyTouched, UsedKept
<1>5. CASE pc = "saveBam" /\ new \in NextWrite
    <2>1. new.sec = image.sec /\ new.dir = image.dir /\ new.bam = work.bam
        BY <1>1, <1>5 DEF NextWrite, Image
    <2> QED
        BY <1>1, <1>5, <2>1 DEF OnlyTouched, UsedKept
<1>6. CASE pc = "verify" /\ new \in NextWrite
    <2>1. new = [image EXCEPT !.bam = CorrectedCounts(image.bam)]
        BY <1>6 DEF NextWrite
    <2>2. new.sec = image.sec /\ new.dir = image.dir /\ new.bam.free = image.bam.free
        BY <1>1, <2>1, CorrectedBits DEF Image
    <2> QED
        BY <1>1, <2>2 DEF OnlyTouched, UsedKept
<1> QED
    BY <1>2, <1>3, <1>4, <1>5, <1>6 DEF Writing

\* On any image, damaged or not, and whatever fails: until it is rolled back an
\* operation changes no sector that was used when it began, no directory entry
\* but its own, and frees no sector off the chain of that entry.
THEOREM OperationsTouchTheirOwn == Spec => OthersUntouched
<1>1. Init => UsedKept
    BY DEF Init, UsedKept, Writing
<1>2. IInv /\ Progress /\ UsedKept /\ [Next]_vars =>
          [(pc \in Writing) => \E e \in Slots : OnlyTouched(before, image', e)]_vars
    <2> SUFFICES ASSUME IInv, Progress, UsedKept, [Next]_vars, pc \in Writing, vars' # vars
                 PROVE  \E e \in Slots : OnlyTouched(before, image', e)
        OBVIOUS
    <2>1. image' \in NextWrite \cup {image}
        BY DEF Next, Step, Open, OpenFails, Call, AddFile, DeleteFile, RenameFile,
           BeginTransaction, BeginFails, WriteData, WriteEntry, SaveBam, Proceed,
           CommitRename, VerifyAndCommit, CommitTransaction, VerifyFails, WriteFails,
           Rollback, RollbackFails, Crash, Writing
    <2>2. work.slot \in Slots
        BY StagesTouch DEF Work
    <2> QED
        BY <2>1, <2>2, WritesTouchOnly
<1> QED
    BY <1>1, <1>2, UsedKeptStep, Always, PTL DEF Spec, OthersUntouched

-----------------------------------------------------------------------------
(* Counts and bits.                                                        *)

\* The file sectors of every track can be counted in a byte: a .D64 has at
\* most 21 on a track.
SmallTracks ==
    \A t \in Tracks : Cardinality({s \in FileSectors : TrackOf[s] = t}) < 256

LEMMA FreeCountFits ==
    ASSUME SmallTracks, NEW bam, NEW t \in Tracks
    PROVE  /\ IsFiniteSet(FreeOnTrack(bam, t))
           /\ Cardinality(FreeOnTrack(bam, t)) \in 0..255
<1> DEFINE F == FreeOnTrack(bam, t)
           T == {s \in FileSectors : TrackOf[s] = t}
<1>1. T \in SUBSET FileSectors /\ F \subseteq T
    BY DEF FreeOnTrack, FreeSectors
<1>2. IsFiniteSet(T)
    BY <1>1, FormatAssumption, FS_Interval, FS_Subset DEF FileSectors
<1>3. /\ IsFiniteSet(F) /\ Cardinality(F) \in Nat /\ Cardinality(T) \in Nat
      /\ Cardinality(F) =< Cardinality(T)
    BY <1>1, <1>2, FS_Subset, FS_CardinalityType
<1>4. Cardinality(T) < 256
    BY DEF SmallTracks
<1> HIDE DEF F, T
<1>5. Cardinality(F) \in 0..255
    BY <1>3, <1>4
<1> QED
    BY <1>3, <1>5 DEF F

LEMMA ByteIsItself ==
    ASSUME NEW c \in 0..255
    PROVE  (c % 256) = c
    OBVIOUS

LEMMA OneLess ==
    ASSUME NEW S, IsFiniteSet(S), NEW x \in S
    PROVE  /\ Cardinality(S) \in Nat /\ Cardinality(S) # 0
           /\ Cardinality(S \ {x}) = Cardinality(S) - 1
<1>1. Cardinality(S \ {x}) = Cardinality(S) - 1
    BY FS_RemoveElement
<1> QED
    BY <1>1, FS_CardinalityType, FS_EmptySet

\* MarkSectorUsed takes one off the count of the track it takes a bit from.
LEMMA UsedIsCounted ==
    ASSUME SmallTracks, NEW bam \in Bam, NEW s \in FileSectors, CountsRight(bam)
    PROVE  CountsRight(MarkSectorUsed(bam, s))
<1>1. CASE ~ bam.free[s]
    BY <1>1 DEF MarkSectorUsed
<1>2. CASE bam.free[s]
    <2> DEFINE new == MarkSectorUsed(bam, s)
               u == TrackOf[s]
    <2>1. /\ new.count = [bam.count EXCEPT ![u] = IF @ > 0 THEN @ - 1 ELSE 0]
          /\ new.free = [bam.free EXCEPT ![s] = FALSE]
        BY <1>2 DEF MarkSectorUsed, Bam
    <2> HIDE DEF new
    <2> SUFFICES ASSUME NEW t \in Tracks
                 PROVE  new.count[t] = Cardinality(FreeOnTrack(new, t))
        BY DEF CountsRight, new
    <2>2. bam.count[t] = Cardinality(FreeOnTrack(bam, t)) /\ bam.count \in [Tracks -> Bytes]
          /\ bam.free \in [FileSectors -> BOOLEAN]
        BY DEF CountsRight, Bam
    <2>3. CASE t = u
        <3>1. s \in FreeOnTrack(bam, t)
            BY <1>2, <2>3 DEF FreeOnTrack, FreeSectors
        <3>2. FreeOnTrack(new, t) = FreeOnTrack(bam, t) \ {s}
            BY <2>1, <2>2 DEF FreeOnTrack, FreeSectors
        <3>3. /\ Cardinality(FreeOnTrack(bam, t)) \in Nat
              /\ Cardinality(FreeOnTrack(new, t)) = Cardinality(FreeOnTrack(bam, t)) - 1
              /\ Cardinality(FreeOnTrack(bam, t)) # 0
            <4>1. IsFiniteSet(FreeOnTrack(bam, t))
                BY FreeCountFits
            <4> QED
                BY <3>1, <3>2, <4>1, OneLess
        <3>4. new.count[t] = IF bam.count[t] > 0 THEN bam.count[t] - 1 ELSE 0
            BY <2>1, <2>2, <2>3
        <3> QED
            BY <2>2, <3>3, <3>4
    <2>4. CASE t # u
        <3>1. FreeOnTrack(new, t) = FreeOnTrack(bam, t)
            BY <2>1, <2>2, <2>4 DEF FreeOnTrack, FreeSectors
        <3>2. new.count[t] = bam.count[t]
            BY <2>1, <2>2, <2>4
        <3> QED
            BY <2>2, <3>1, <3>2
    <2> QED
        BY <2>3, <2>4
<1> QED
    BY <1>1, <1>2

\* MarkSectorFree adds one for every bit it sets, and none for those set already.
LEMMA FreedAreCounted ==
    ASSUME SmallTracks, NEW bam \in Bam, NEW S \in SUBSET FileSectors, CountsRight(bam)
    PROVE  CountsRight(MarkSectorsFree(bam, S))
<1> DEFINE new == MarkSectorsFree(bam, S)
<1> SUFFICES ASSUME NEW t \in Tracks
             PROVE  new.count[t] = Cardinality(FreeOnTrack(new, t))
    BY DEF CountsRight
<1> DEFINE F == FreeOnTrack(bam, t)
           A == {s \in S : TrackOf[s] = t /\ ~ bam.free[s]}
<1>1. new.count[t] = ((Cardinality(F) + Cardinality(A)) % 256)
    BY DEF MarkSectorsFree, CountsRight
<1>2. FreeOnTrack(new, t) = F \cup A
    BY DEF MarkSectorsFree, FreeOnTrack, FreeSectors
<1>3. F \cap A = {}
    BY DEF FreeOnTrack, FreeSectors
<1>4. A \in SUBSET FileSectors
    OBVIOUS
<1>5. IsFiniteSet(A) /\ IsFiniteSet(F) /\ Cardinality(FreeOnTrack(new, t)) \in 0..255
    <2>1. IsFiniteSet(FileSectors)
        BY FormatAssumption, FS_Interval DEF FileSectors
    <2>2. IsFiniteSet(F) /\ Cardinality(FreeOnTrack(new, t)) \in 0..255
        BY FreeCountFits
    <2> HIDE DEF A
    <2>3. IsFiniteSet(A)
        BY <1>4, <2>1, FS_Subset
    <2> QED
        BY <2>2, <2>3
<1> HIDE DEF F, A, new
<1>6. Cardinality(F \cup A) = Cardinality(F) + Cardinality(A)
    <2>1. Cardinality(F \cup A) = Cardinality(F) + Cardinality(A) - Cardinality({})
        BY <1>3, <1>5, FS_Union
    <2>2. Cardinality(F) \in Nat /\ Cardinality(A) \in Nat /\ Cardinality({}) = 0
        BY <1>5, FS_CardinalityType, FS_EmptySet
    <2> QED
        BY <2>1, <2>2
<1> QED
    BY <1>1, <1>2, <1>5, <1>6, ByteIsItself

LEMMA CorrectedAreRight ==
    ASSUME SmallTracks, NEW bam \in Bam
    PROVE  CountsRight(CorrectedCounts(bam))
<1>1. \A t \in Tracks : FreeOnTrack(CorrectedCounts(bam), t) = FreeOnTrack(bam, t)
    BY CorrectedBits DEF FreeOnTrack, FreeSectors
<1>2. \A t \in Tracks :
          CorrectedCounts(bam).count[t] = (Cardinality(FreeOnTrack(bam, t)) % 256)
    BY DEF CorrectedCounts, Bam
<1> QED
    BY <1>1, <1>2, FreeCountFits, ByteIsItself DEF CountsRight

\* The BAM an operation is about to save is right as the image's is.
CountsInv ==
    CountsRight(committed.bam) =>
        CountsRight(image.bam) /\ (pc \in Writing => CountsRight(work.bam))

\* Counts are of one BAM, whatever the step that evaluates them.
LEMMA CountsOf ==
    /\ \A bam : bam = image'.bam /\ CountsRight(bam) => CountsRight(image.bam)'
    /\ \A bam : bam = work'.bam /\ CountsRight(bam) => CountsRight(work.bam)'
    /\ \A bam : bam = committed'.bam /\ CountsRight(committed.bam)' => CountsRight(bam)
    BY DEF CountsRight, FreeOnTrack, FreeSectors

LEMMA CountsPrepared ==
    ASSUME SmallTracks, IInv, CountsInv, Call
    PROVE  CountsInv'
<1>1. image' = image /\ committed' = committed
    BY DEF Call, AddFile, DeleteFile, RenameFile, BeginTransaction
<1>2. image \in Image /\ image.bam \in Bam
    BY DEF IInv, TypeOK, Image
<1>3. pc' \in Writing =>
          \/ work'.bam = image.bam
          \/ \E S \in SUBSET FileSectors : work'.bam = MarkSectorsFree(image.bam, S)
    <2> SUFFICES ASSUME pc' \in Writing
                 PROVE  \/ work'.bam = image.bam
                        \/ \E S \in SUBSET FileSectors :
                              work'.bam = MarkSectorsFree(image.bam, S)
        OBVIOUS
    <2>1. ~ Refuse
        BY DEF Refuse, Writing
    <2>2. ASSUME NEW name \in Targets, NEW h \in HostFiles \cup {Missing}, AddFile(name, h)
          PROVE  work'.bam = image.bam
        BY <2>1, <2>2 DEF AddFile
    <2>3. ASSUME NEW name \in Targets, NEW to \in Targets, RenameFile(name, to)
          PROVE  work'.bam = image.bam
        <3> DEFINE renamed(d) ==
                [image.dir[d] EXCEPT !.type = RenamedType(@, to.ext),
                                     !.base = NormalBase[to.base]]
        <3>1. \E d \in FindEntryByName(image, name) :
                  work' = [slot |-> d, entry |-> renamed(d), bam |-> image.bam,
                           alloc |-> {}, todo |-> {}]
            BY <2>1, <2>3 DEF RenameFile
        <3> QED
            BY <3>1
    <2>4. ASSUME NEW name \in Targets, DeleteFile(name)
          PROVE  \E S \in SUBSET FileSectors : work'.bam = MarkSectorsFree(image.bam, S)
        <3>1. PICK d \in FindEntryByName(image, name) :
                  work' = [slot |-> d, entry |-> ClearedEntry,
                           bam |-> MarkSectorsFree(image.bam, Chain(image, image.dir[d].start)),
                           alloc |-> {}, todo |-> {}]
            BY <2>1, <2>4 DEF DeleteFile
        <3>2. work'.bam = MarkSectorsFree(image.bam, Chain(image, image.dir[d].start))
            BY <3>1
        <3> QED
            BY <3>2, ChainType
    <2> QED
        BY <2>2, <2>3, <2>4 DEF Call
<1>4. CountsRight(image.bam) /\ pc' \in Writing => CountsRight(work'.bam)
    BY <1>2, <1>3, FreedAreCounted
<1> QED
    BY <1>1, <1>4, CountsOf DEF CountsInv

\* Every image a write can leave has right counts, if image and work have.
LEMMA WritesCount ==
    ASSUME SmallTracks, IInv, pc \in Writing, CountsRight(image.bam),
           CountsRight(work.bam), NEW new \in NextWrite \cup {image}
    PROVE  CountsRight(new.bam)
<1>1. image \in Image /\ image.bam \in Bam /\ work \in Work
    BY DEF IInv, TypeOK, InProgress, Image
<1>2. CASE new = image
    BY <1>2
<1>3. CASE pc = "addData" /\ new \in NextWrite
    <2>1. new \in UNION {{[image EXCEPT !.sec[s] = DataSector(s, next)] :
                             next \in LinkAfter(s)} : s \in Least(work.todo)}
        BY <1>3 DEF NextWrite
    <2>2. new.bam = image.bam
        BY <1>1, <2>1 DEF Image
    <2> QED
        BY <2>2
<1>4. CASE pc = "writeEntry" /\ new \in NextWrite
    <2>1. new.bam = image.bam
        BY <1>1, <1>4 DEF NextWrite, Image
    <2> QED
        BY <2>1
<1>5. CASE pc = "saveBam" /\ new \in NextWrite
    <2>1. new.bam = work.bam
        BY <1>1, <1>5 DEF NextWrite, Image
    <2> QED
        BY <2>1
<1>6. CASE pc = "verify" /\ new \in NextWrite
    <2>1. new.bam = CorrectedCounts(image.bam)
        BY <1>1, <1>6 DEF NextWrite, Image
    <2> QED
        BY <1>1, <2>1, CorrectedAreRight
<1> QED
    BY <1>2, <1>3, <1>4, <1>5, <1>6 DEF Writing

LEMMA CountsStep == SmallTracks /\ IInv /\ CountsInv /\ [Next]_vars => CountsInv'
<1> SUFFICES ASSUME SmallTracks, IInv, CountsInv, [Next]_vars PROVE CountsInv'
    OBVIOUS
<1>1. CASE Call
    BY <1>1, CountsPrepared
<1>2. CASE WriteData
    <2>1. PICK s \in Least(work.todo) :
              /\ work' = [work EXCEPT !.bam = MarkSectorUsed(@, s), !.todo = @ \ {s}]
              /\ Proceed(IF work.todo = {s} THEN "writeEntry" ELSE "addData")
        BY <1>2 DEF WriteData
    <2>2. pc \in Writing /\ work \in Work /\ committed' = committed /\ image' \in NextWrite
        BY <1>2, <2>1 DEF WriteData, Proceed, IInv, InProgress, Writing
    <2>3. /\ work'.bam = MarkSectorUsed(work.bam, s)
          /\ s \in FileSectors /\ work.bam \in Bam
        BY <2>1, <2>2 DEF Work, Least
    <2>4. CountsRight(work.bam) => CountsRight(work'.bam)
        BY <2>3, UsedIsCounted
    <2> QED
        BY <2>2, <2>4, WritesCount, CountsOf DEF CountsInv
<1>3. CASE WriteEntry \/ SaveBam
    <2>1. pc \in Writing /\ work' = work /\ committed' = committed /\ image' \in NextWrite
        BY <1>3 DEF WriteEntry, SaveBam, Proceed, Writing
    <2> QED
        BY <2>1, WritesCount, CountsOf DEF CountsInv
<1>4. CASE VerifyFails \/ WriteFails
    <2>1. /\ pc \in Writing /\ pc' \notin Writing /\ committed' = committed
          /\ image' \in NextWrite \cup {image}
        BY <1>4 DEF VerifyFails, WriteFails, StartRollback, Writing
    <2> QED
        BY <2>1, WritesCount, CountsOf DEF CountsInv
<1>5. CASE CommitRename \/ VerifyAndCommit \/ Open \/ OpenFails \/ Crash
    <2>1. committed' = image' /\ pc' \notin Writing
        BY <1>5 DEF CommitRename, VerifyAndCommit, CommitTransaction, Open, OpenFails, Crash,
           Writing
    <2> QED
        BY <2>1, CountsOf DEF CountsInv
<1>6. CASE Rollback \/ RollbackFails
    <2>1. pc' \notin Writing /\ committed' = committed /\ backup = committed
        BY <1>6 DEF Rollback, RollbackFails, Writing, IInv, InProgress, TransactionRestores,
           Busy
    <2>2. image'.bam = image.bam \/ image'.bam = backup.bam
        BY <1>6 DEF Rollback, RollbackFails, RolledBackTo
    <2> QED
        BY <2>1, <2>2, CountsOf DEF CountsInv
<1>7. CASE BeginFails
    <2>1. image' = image /\ committed' = committed /\ pc' \notin Writing
        BY <1>7 DEF BeginFails, Writing
    <2> QED
        BY <2>1, CountsOf DEF CountsInv
<1>8. CASE UNCHANGED vars
    BY <1>8, CountsOf DEF vars, CountsInv
<1> QED
    BY <1>1, <1>2, <1>3, <1>4, <1>5, <1>6, <1>7, <1>8 DEF Next, Step

\* On images with right counts, free counts and free bits agree after every
\* write, kill, failed write and partial rollback.
THEOREM CountsAndBitsAgree ==
    ASSUME SmallTracks
    PROVE  Spec => []CountsStayRight
<1>1. Init => CountsInv
    BY DEF Init, CountsInv, Writing
<1>2. CountsInv => CountsStayRight
    BY DEF CountsInv, CountsStayRight
<1> QED
    BY <1>1, <1>2, CountsStep, Always, PTL DEF Spec

-----------------------------------------------------------------------------
(* Space.                                                                  *)

\* What a successful import or deletion leaves on the image.
LEMMA VerifiedImage ==
    ASSUME IInv, VerifyAndCommit
    PROVE  /\ image' = [image EXCEPT !.bam = CorrectedCounts(image.bam)]
           /\ image'.sec = image.sec /\ image'.dir = image.dir
           /\ image'.bam = CorrectedCounts(image.bam)
           /\ image'.bam.free = image.bam.free
           /\ image.bam \in Bam
           /\ ~ BamMismatch(image)
<1>1. image \in Image /\ image.bam \in Bam
    BY DEF IInv, TypeOK, Image
<1>2. image' = [image EXCEPT !.bam = CorrectedCounts(image.bam)] /\ ~ BamMismatch(image)
    BY DEF VerifyAndCommit, CommitTransaction, NextWrite
<1> QED
    BY <1>1, <1>2, CorrectedBits DEF Image

\* The least element of a set of naturals, and the greatest of file sectors.
LEMMA LeastExists ==
    ASSUME NEW S \in SUBSET Nat, S # {}
    PROVE  \E x \in S : \A y \in S : x =< y
<1>1. PICK x \in S : \A y \in S : <<y, x>> \notin OpToRel(<, Nat)
    BY NatLessThanWellFounded, WFMin
<1>2. ASSUME NEW y \in S PROVE x =< y
    <2>1. x \in Nat /\ y \in Nat
        OBVIOUS
    <2>2. ~ (y < x)
        BY <1>1, <2>1 DEF OpToRel
    <2> QED
        BY <2>1, <2>2
<1> QED
    BY <1>2

LEMMA GreatestExists ==
    ASSUME NEW S \in SUBSET FileSectors, S # {}
    PROVE  \E x \in S : \A y \in S : y =< x
<1> DEFINE Left == {N - t : t \in S}
<1>1. N \in Nat /\ \A t \in S : t \in 1..N
    BY FormatAssumption DEF FileSectors
<1>2. \A t \in S : N - t \in Nat
    BY <1>1
<1>3. Left \in SUBSET Nat /\ Left # {}
    BY <1>2
<1>4. \A t \in S : N - t \in Left
    OBVIOUS
<1>5. \A x \in Left : \E t \in S : x = N - t
    OBVIOUS
<1> HIDE DEF Left
<1>6. PICK x \in Left : \A y \in Left : x =< y
    BY <1>3, LeastExists
<1>7. PICK t \in S : x = N - t
    BY <1>5
<1>8. ASSUME NEW u \in S PROVE u =< t
    <2>1. N - t =< N - u
        BY <1>4, <1>6, <1>7
    <2> QED
        BY <1>1, <2>1
<1> QED
    BY <1>8

\* A chain that links each sector of A to the next one of A holds them all.
LEMMA LinkedChainIsAll ==
    ASSUME NEW img \in Image, NEW A \in SUBSET FileSectors, NEW s \in A,
           \A t \in A : s =< t, \A t \in A : LinksOn(img.sec[t].next, t, A)
    PROVE  A \subseteq Chain(img, s)
<1> DEFINE C == Chain(img, s)
<1> SUFFICES ASSUME A \ C # {} PROVE FALSE
    OBVIOUS
<1>1. A \in SUBSET Nat /\ 0 \notin A
    <2>1. \A t \in A : t \in 1..N
        BY DEF FileSectors
    <2> QED
        BY <2>1, FormatAssumption
<1>2. s \in C /\ \A t \in C : img.sec[t].next # 0 => img.sec[t].next \in C
    BY ChainFollowsLinks
<1> HIDE DEF C
<1>3. PICK u \in A \ C : \A t \in A \ C : u =< t
    <2>1. A \ C \in SUBSET Nat
        BY <1>1
    <2> QED
        BY <2>1, LeastExists
<1> DEFINE B == {t \in A : t < u}
<1>4. s \in B
    <2>1. s =< u /\ s # u
        BY <1>2, <1>3
    <2> QED
        BY <1>1, <1>3, <2>1
<1>5. B \in SUBSET FileSectors /\ B # {}
    BY <1>4
<1>6. PICK p \in B : \A t \in B : t =< p
    BY <1>5, GreatestExists
<1>7. p \in A /\ p < u /\ ~ (u =< p)
    BY <1>1, <1>3, <1>6
<1>8. p \in C
    BY <1>3, <1>7
<1> DEFINE next == img.sec[p].next
<1>9. LinksOn(next, p, A) /\ (next # 0 => next \in C)
    BY <1>2, <1>7, <1>8
<1> HIDE DEF next
<1>10. next \in A /\ next > p /\ next =< u
    BY <1>3, <1>7, <1>9 DEF LinksOn
<1>11. next \in C /\ next # u
    BY <1>1, <1>3, <1>9, <1>10
<1>12. next \in B
    BY <1>1, <1>3, <1>10, <1>11
<1>13. next =< p
    BY <1>6, <1>12
<1> QED
    BY <1>1, <1>7, <1>10, <1>13

Accounted(img) ==
    \A s \in FileSectors : img.bam.free[s] <=> s \notin ScanUsedSectors(img)

\* The type byte written says of what kind the file is.
LEMMA KindsKept ==
    ASSUME NEW ext, NEW type \in Bytes
    PROVE  /\ ExtensionToFileType(ext) \in 0..4
           /\ (128 + ExtensionToFileType(ext)) % 8 = ExtensionToFileType(ext)
           /\ RenamedType(type, ext) % 8 = ExtensionToFileType(ext)
<1>1. ExtensionToFileType(ext) \in 0..4
    BY ExtensionToFileTypeRange
<1>2. \A k \in 0..4 : ((128 + k) % 8) = k
    OBVIOUS
<1>3. \A k \in 0..4, n \in 0..255 : ((n - (n % 8) + k) % 8) = k
    OBVIOUS
<1>4. \A k \in 0..4, n \in 0..255 : (((n + 128) - (n % 8) + k) % 8) = k
    OBVIOUS
<1>5. type \in 0..255
    BY DEF Bytes
<1>6. RenamedType(type, ext) =
          IF type >= 128 THEN type - (type % 8) + ExtensionToFileType(ext)
          ELSE (type + 128) - (type % 8) + ExtensionToFileType(ext)
    BY DEF RenamedType
<1> HIDE DEF ExtensionToFileType
<1>7. (RenamedType(type, ext) % 8) = ExtensionToFileType(ext)
    <2>1. ((type - (type % 8) + ExtensionToFileType(ext)) % 8) = ExtensionToFileType(ext)
        BY <1>1, <1>3, <1>5
    <2>2. (((type + 128) - (type % 8) + ExtensionToFileType(ext)) % 8) = ExtensionToFileType(ext)
        BY <1>1, <1>4, <1>5
    <2> QED
        BY <1>6, <2>1, <2>2, Zenon
<1> QED
    BY <1>1, <1>2, <1>7

\* Every extension but DEL gives a kind that is live.
LEMMA KindsAreLive ==
    ASSUME NEW ext, ext # "DEL", NEW type \in Bytes
    PROVE  /\ (128 + ExtensionToFileType(ext)) % 8 # 0
           /\ RenamedType(type, ext) % 8 # 0
<1>1. ExtensionToFileType(ext) # 0
    BY DEF ExtensionToFileType
<1> QED
    BY <1>1, KindsKept, Zenon

\* Dropping a file and freeing its chain accounts for the space it took.
LEMMA DroppedIsAccounted ==
    ASSUME NEW img \in Image, NEW new \in Image, Sound(img), Accounted(img),
           NEW d \in LiveSlots(img), LiveSlots(new) = LiveSlots(img) \ {d},
           \A e \in LiveSlots(new) : new.dir[e].start = img.dir[e].start,
           new.sec = img.sec,
           \A t \in FileSectors :
               new.bam.free[t] <=> img.bam.free[t] \/ t \in Chain(img, img.dir[d].start)
    PROVE  Accounted(new)
<1>1. ASSUME NEW e \in LiveSlots(new)
      PROVE  Chain(new, new.dir[e].start) = Chain(img, img.dir[e].start)
    BY DEF Chain, ClosedFrom
<1>2. ASSUME NEW t \in FileSectors
      PROVE  new.bam.free[t] <=> t \notin ScanUsedSectors(new)
    <2>1. t \in ScanUsedSectors(new)
              <=> \E e \in LiveSlots(img) \ {d} : t \in Chain(img, img.dir[e].start)
        BY <1>1 DEF ScanUsedSectors
    <2>2. t \in ScanUsedSectors(img)
              <=> \E e \in LiveSlots(img) : t \in Chain(img, img.dir[e].start)
        BY DEF ScanUsedSectors
    <2>3. t \in Chain(img, img.dir[d].start) =>
              \A e \in LiveSlots(img) \ {d} : t \notin Chain(img, img.dir[e].start)
        BY DEF Sound, ChainsDisjoint
    <2>4. img.bam.free[t] <=> t \notin ScanUsedSectors(img)
        BY DEF Accounted
    <2> QED
        BY <2>1, <2>2, <2>3, <2>4
<1> QED
    BY <1>2 DEF Accounted

\* So does adding one whose chain holds all that was allocated to it.
LEMMA ExtendedIsAccounted ==
    ASSUME NEW img \in Image, NEW new \in Image, NEW d, NEW A, Sound(img), Accounted(img),
           Extended(new, img, d, A), LiveSlots(new) = LiveSlots(img) \cup {d},
           A \subseteq Chain(new, new.dir[d].start),
           \A t \in FileSectors : new.bam.free[t] <=> img.bam.free[t] /\ t \notin A
    PROVE  Accounted(new)
<1>1. Chain(new, new.dir[d].start) = A
    BY ImportedChain
<1>2. ASSUME NEW e \in LiveSlots(img)
      PROVE  Chain(new, new.dir[e].start) = Chain(img, img.dir[e].start)
    BY OtherChains DEF Extended
<1>3. ASSUME NEW t \in FileSectors
      PROVE  new.bam.free[t] <=> t \notin ScanUsedSectors(new)
    <2>1. t \in ScanUsedSectors(new)
              <=> \E e \in LiveSlots(img) \cup {d} : t \in Chain(new, new.dir[e].start)
        BY DEF ScanUsedSectors
    <2>2. t \in ScanUsedSectors(img)
              <=> \E e \in LiveSlots(img) : t \in Chain(img, img.dir[e].start)
        BY DEF ScanUsedSectors
    <2>3. t \in ScanUsedSectors(new) <=> t \in A \/ t \in ScanUsedSectors(img)
        BY <1>1, <1>2, <2>1, <2>2
    <2>4. img.bam.free[t] <=> t \notin ScanUsedSectors(img)
        BY DEF Accounted
    <2> QED
        BY <2>3, <2>4
<1> QED
    BY <1>3 DEF Accounted

\* Counts and names are not what space is accounted by.
LEMMA SameFilesAccounted ==
    ASSUME NEW img \in Image, NEW new, Accounted(img),
           LiveSlots(new) = LiveSlots(img), new.sec = img.sec,
           \A e \in LiveSlots(img) : new.dir[e].start = img.dir[e].start,
           new.bam.free = img.bam.free
    PROVE  Accounted(new)
<1>1. \A e \in LiveSlots(img) : Chain(new, new.dir[e].start) = Chain(img, img.dir[e].start)
    BY DEF Chain, ClosedFrom
<1>2. ScanUsedSectors(new) = ScanUsedSectors(img)
    BY <1>1 DEF ScanUsedSectors
<1> QED
    BY <1>2 DEF Accounted

\* What a successful operation leaves, when no caller names a file x.DEL.
LEMMA CommitIsAccounted ==
    ASSUME IInv, Progress, Sound(before), Accounted(before),
           \A name \in Targets : name.ext # "DEL", CommitRename \/ VerifyAndCommit
    PROVE  Accounted(image')
<1>1. /\ image \in Image /\ before \in Image /\ pc \in Writing /\ image' \in NextWrite
      /\ op \in Operation
    BY DEF IInv, TypeOK, CommitRename, VerifyAndCommit, CommitTransaction, Writing
<1>2. image' \in Image /\ before.dir \in [Slots -> Entry] /\ before.bam \in Bam
    BY <1>1, NextWriteType DEF Image
<1>3. CASE Renaming
    <2>1. image' = [before EXCEPT !.dir[work.slot] = work.entry]
        BY <1>1, <1>3 DEF Renaming, NextWrite
    <2>2. work.slot \in Slots /\ work.slot \in LiveSlots(before)
        BY <1>3 DEF Renaming, LiveSlots
    <2>3. /\ image'.sec = before.sec /\ image'.bam = before.bam
          /\ image'.dir = [before.dir EXCEPT ![work.slot] = work.entry]
        BY <1>1, <2>1 DEF Image
    <2>4. op.new \in Targets
        BY <1>1, <1>3 DEF Renaming, Operation, NoOperation
    <2>5. before.dir[work.slot].type \in Bytes
        BY <1>2, <2>2 DEF Entry
    <2>6. IsLive(work.entry)
        BY <1>3, <2>4, <2>5, KindsAreLive DEF Renaming, IsLive
    <2>7. LiveSlots(image') = LiveSlots(before)
        BY <1>2, <2>2, <2>3, <2>6, LiveSlotsOf DEF LiveSlots
    <2>8. \A e \in LiveSlots(before) : image'.dir[e].start = before.dir[e].start
        BY <1>2, <1>3, <2>2, <2>3 DEF Renaming, LiveSlots
    <2> QED
        BY <1>1, <2>3, <2>7, <2>8, SameFilesAccounted
<1>4. ASSUME ~ Renaming
      PROVE  /\ pc = "verify" /\ (Importing \/ Deleting)
             /\ image'.sec = image.sec /\ image'.dir = image.dir
             /\ image'.bam.free = work.bam.free
    <2>1. Importing \/ Deleting
        BY <1>1, <1>4 DEF Progress
    <2>2. VerifyAndCommit
        BY <2>1 DEF Importing, Deleting, CommitRename
    <2>3. pc = "verify" /\ image.bam = work.bam
        BY <2>1, <2>2 DEF VerifyAndCommit, Importing, Deleting
    <2> QED
        BY <2>1, <2>2, <2>3, VerifiedImage
<1>5. CASE Deleting
    <2>1. ~ Renaming
        BY <1>5 DEF Deleting, Renaming
    <2>2. work.slot \in LiveSlots(before) /\ work.slot \in Slots
        BY <1>5 DEF Deleting, LiveSlots
    <2>3. /\ image'.sec = before.sec
          /\ image'.dir = [before.dir EXCEPT ![work.slot] = ClearedEntry]
          /\ \A t \in FileSectors : image'.bam.free[t] <=>
                 before.bam.free[t] \/ t \in Chain(before, before.dir[work.slot].start)
        BY <1>4, <1>5, <2>1 DEF Deleting
    <2>4. ~ IsLive(ClearedEntry)
        BY DEF IsLive, ClearedEntry
    <2>5. LiveSlots(image') = LiveSlots(before) \ {work.slot}
        BY <1>2, <2>2, <2>3, <2>4, LiveSlotsOf DEF LiveSlots
    <2>6. \A e \in LiveSlots(image') : image'.dir[e].start = before.dir[e].start
        BY <1>2, <2>2, <2>3, <2>5 DEF LiveSlots
    <2> QED
        BY <1>1, <1>2, <2>2, <2>3, <2>5, <2>6, DroppedIsAccounted
<1>6. CASE Importing
    <2> DEFINE A == work.alloc
               s == work.entry.start
    <2>1. ~ Renaming
        BY <1>6 DEF Importing, Renaming
    <2>2. /\ work.slot \in Slots \ LiveSlots(before) /\ work.todo = {}
          /\ image.dir = [before.dir EXCEPT ![work.slot] = work.entry]
          /\ A \in SUBSET FileSectors /\ s \in A /\ \A t \in A : s =< t
          /\ \A t \in A : LinksOn(image.sec[t].next, t, A)
          /\ \A t \in FileSectors : work.bam.free[t] <=> before.bam.free[t] /\ t \notin A
        BY <1>4, <1>6, <2>1 DEF Importing, Work
    <2>3. op.name \in Targets
        BY <1>1, <1>6 DEF Importing, Operation, NoOperation
    <2>4. IsLive(work.entry)
        <3>1. 0 \in Bytes
            BY DEF Bytes
        <3> QED
            BY <1>6, <2>3, <3>1, KindsAreLive DEF Importing, IsLive
    <2>5. LiveSlots(image') = LiveSlots(before) \cup {work.slot}
        BY <1>2, <1>4, <2>1, <2>2, <2>4, LiveSlotsOf DEF LiveSlots
    <2>6. Extended(image, before, work.slot, A)
        BY <1>4, <1>6, <2>1, ImportComplete
    <2>7. image.bam.free = work.bam.free
        BY <1>4, <1>6, <2>1 DEF Importing
    <2>8. LiveSlots(image') = LiveSlots(image)
        BY <1>4, <2>1 DEF LiveSlots
    <2>9. image'.dir[work.slot].start = s
        BY <1>2, <1>4, <2>1, <2>2
    <2>10. A \subseteq Chain(image', s)
        BY <1>2, <1>4, <2>1, <2>2, LinkedChainIsAll
    <2>11. Extended(image', before, work.slot, A)
        BY <1>4, <2>1, <2>6, <2>7, <2>8 DEF Extended
    <2>12. \A t \in FileSectors : image'.bam.free[t] <=> before.bam.free[t] /\ t \notin A
        BY <1>4, <2>1, <2>2
    <2> HIDE DEF A, s
    <2> QED
        BY <1>1, <1>2, <2>5, <2>9, <2>10, <2>11, <2>12, ExtendedIsAccounted
<1> QED
    BY <1>1, <1>3, <1>5, <1>6 DEF Progress

\* The operation begins on an image whose space is accounted for.
LEMMA AccountedOf ==
    ASSUME NEW img, before' = img, Accounted(img)
    PROVE  Accounted(before)'
    BY DEF Accounted, ScanUsedSectors, LiveSlots, Chain, ClosedFrom

LEMMA AccountedStep ==
    ASSUME Faults \subseteq {"read"}, \A name \in Targets : name.ext # "DEL",
           IInv, Progress, Calm, Accounted(before), [Next]_vars
    PROVE  Accounted(before)'
<1>1. CASE CommitRename \/ VerifyAndCommit
    <2>1. Accounted(image') /\ before' = image'
        BY <1>1, CommitIsAccounted DEF Calm, CommitRename, VerifyAndCommit,
           CommitTransaction
    <2> QED
        BY <2>1, AccountedOf
<1>2. CASE ~ (CommitRename \/ VerifyAndCommit)
    <2>1. ~ WriteFails /\ ~ RollbackFails /\ ~ Crash
        BY DEF WriteFails, RollbackFails, Crash, Calm
    <2>2. Rollback => before' = before
        BY DEF Rollback, Calm, Busy
    <2>3. Call => before' = before
        BY DEF Call, AddFile, DeleteFile, RenameFile, BeginTransaction
    <2>4. before' = before
        BY <1>2, <2>1, <2>2, <2>3 DEF Next, Step, Open, OpenFails, BeginFails, WriteData, WriteEntry,
           SaveBam, Proceed, VerifyFails, StartRollback, vars
    <2> QED
        BY <2>4, AccountedOf
<1> QED
    BY <1>1, <1>2

\* When nothing but reads can fail and no caller names a file x.DEL, every file
\* sector is free or part of a live file whenever no operation runs: imports,
\* deletions, renamings and rollbacks never lose space.
THEOREM NoSpaceIsLost ==
    ASSUME \A img \in InitialImages : Sound(img) /\ Accounted(img),
           Faults \subseteq {"read"}, \A name \in Targets : name.ext # "DEL"
    PROVE  Spec => []SpaceAccounted
<1>1. Init => Calm /\ Accounted(before)
    <2>1. Init => before \in InitialImages
        BY DEF Init
    <2> QED
        BY <2>1 DEF Init, Calm, Busy, Writing
<1>2. IInv /\ Progress /\ Calm /\ Accounted(before) /\ [Next]_vars
          => Calm' /\ Accounted(before)'
    BY CalmStep, AccountedStep
<1>3. Progress /\ Accounted(before) => SpaceAccounted
    BY DEF SpaceAccounted, AtRest, Progress, Accounted
<1> QED
    BY <1>1, <1>2, <1>3, Always, PTL DEF Spec

-----------------------------------------------------------------------------
(* Contents: the editor implements AtomicVolume.                           *)

\* A set of numbers that has 0 and the successor of each of its members up to
\* a bound has every number up to the bound.
LEMMA UpTo ==
    ASSUME NEW M \in Nat, NEW S, 0 \in S,
           \A k \in 0..M : k \in S /\ k < M => k + 1 \in S
    PROVE  \A k \in 0..M : k \in S
<1> DEFINE missing == {k \in 0..M : k \notin S}
<1>1. SUFFICES ASSUME missing # {} PROVE FALSE
    OBVIOUS
<1>2. missing \in SUBSET Nat
    OBVIOUS
<1>3. PICK k \in missing : \A j \in missing : k =< j
    BY <1>1, <1>2, LeastExists
<1>4. k \in 0..M /\ k # 0
    OBVIOUS
<1>5. k - 1 \in 0..M /\ k - 1 \notin missing
    BY <1>3, <1>4
<1>6. k - 1 \in S /\ k - 1 < M
    BY <1>4, <1>5
<1> QED
    BY <1>4, <1>5, <1>6

\* f[k] is the sector reached from s after k links.
Hops(sec, s, M, f) == f = [k \in 0..M |-> IF k = 0 THEN s ELSE sec[f[k-1]].next]

\* Following links any number of times.
LEMMA HopsExist ==
    ASSUME NEW sec, NEW s, NEW M \in Nat
    PROVE  \E f : Hops(sec, s, M, f)
<1> DEFINE link(t) == sec[t].next
           S == {n \in 0..M : \E f : Hops(sec, s, n, f)}
<1>1. 0 \in S
    <2>1. Hops(sec, s, 0, [k \in 0..0 |-> s])
        BY DEF Hops
    <2> QED
        BY <2>1
<1>2. ASSUME NEW n \in 0..M, n \in S, n < M
      PROVE  n + 1 \in S
    <2>1. PICK f : Hops(sec, s, n, f)
        BY <1>2
    <2>a. f = [k \in 0..n |-> IF k = 0 THEN s ELSE link(f[k-1])]
        BY <2>1 DEF Hops
    <2> DEFINE g == [k \in 0..(n + 1) |-> IF k = n + 1 THEN link(f[n]) ELSE f[k]]
    <2> HIDE DEF link
    <2>2. ASSUME NEW k \in 0..(n + 1)
          PROVE  g[k] = IF k = 0 THEN s ELSE link(g[k-1])
        <3>1. CASE k = n + 1
            BY <3>1
        <3>2. CASE k # n + 1
            BY <2>a, <3>2
        <3> QED
            BY <3>1, <3>2
    <2>3. g = [k \in 0..(n + 1) |-> IF k = 0 THEN s ELSE link(g[k-1])]
        BY <2>2
    <2>4. Hops(sec, s, n + 1, g)
        BY <2>3 DEF Hops, link
    <2> HIDE DEF g
    <2> QED
        BY <1>2, <2>4
<1> HIDE DEF S
<1>3. M \in S
    BY <1>1, <1>2, UpTo
<1> QED
    BY <1>3 DEF S

LEMMA HopUnfolds ==
    ASSUME NEW sec, NEW s
    PROVE  /\ Hop(sec, s)[0] = s
           /\ \A k \in 1..N : Hop(sec, s)[k] = sec[Hop(sec, s)[k - 1]].next
<1> DEFINE hop == CHOOSE f : Hops(sec, s, N, f)
<1>1. Hops(sec, s, N, hop)
    BY HopsExist, FormatAssumption
<1>2. Hop(sec, s) = hop
    BY DEF Hop, Hops
<1> HIDE DEF hop
<1>3. /\ hop[0] = s
      /\ \A k \in 1..N : hop[k] = sec[hop[k - 1]].next
    BY <1>1, FormatAssumption DEF Hops
<1> QED
    BY <1>2, <1>3

\* A chain has at most N sectors.
LEMMA ChainCount ==
    ASSUME NEW img, NEW s
    PROVE  /\ IsFiniteSet(Chain(img, s)) /\ Cardinality(Chain(img, s)) \in 0..N
           /\ s = 0 => Cardinality(Chain(img, s)) = 0
<1>1. IsFiniteSet(1..N) /\ Cardinality(1..N) = N
    BY FormatAssumption, FS_Interval
<1>2. Chain(img, s) \in SUBSET (1..N)
    BY ChainType DEF FileSectors
<1>3. /\ IsFiniteSet(Chain(img, s)) /\ Cardinality(Chain(img, s)) =< N
      /\ Cardinality(Chain(img, s)) \in Nat
    BY <1>1, <1>2, FS_Subset, FS_CardinalityType
<1>4. s = 0 => Cardinality(Chain(img, s)) = 0
    BY FS_EmptySet DEF Chain
<1> QED
    BY <1>3, <1>4, FormatAssumption

\* As long as the chain has sectors that have not been seen, the next link
\* leads to one of the chain.
LEMMA HopInChain ==
    ASSUME NEW img \in Image, NEW s \in FileSectors,
           NEW k \in 0..(ChainLength(img, s) - 1)
    PROVE  Hop(img.sec, s)[k] \in Chain(img, s)
<1> DEFINE C == Chain(img, s)
           hop == Hop(img.sec, s)
           L == Cardinality(C)
           out == {i \in 0..(L - 1) : hop[i] \notin C}
<1>1. L \in 0..N /\ IsFiniteSet(C) /\ C \in SUBSET FileSectors /\ L = ChainLength(img, s)
    BY ChainCount, ChainType DEF ChainLength
<1>2. /\ hop[0] = s
      /\ \A i \in 1..N : hop[i] = img.sec[hop[i - 1]].next
    BY HopUnfolds
<1>3. s \in C /\ \A t \in C : img.sec[t].next # 0 => img.sec[t].next \in C
    BY ChainFollowsLinks
<1> HIDE DEF C, hop, L
<1>4. SUFFICES ASSUME out # {} PROVE FALSE
    BY <1>1 DEF C, hop, L
<1>5. PICK i \in out : \A j \in out : i =< j
    <2>1. out \in SUBSET Nat
        BY <1>1
    <2> QED
        BY <1>4, <2>1, LeastExists
<1>6. i \in 0..(L - 1) /\ i # 0 /\ i \in 1..N /\ hop[i] \notin C
    BY <1>1, <1>2, <1>3, <1>5, FormatAssumption
<1>7. \A j \in 0..(i - 1) : hop[j] \in C
    BY <1>1, <1>5, <1>6
<1>8. hop[i] = 0
    <2>1. hop[i] = img.sec[hop[i - 1]].next /\ hop[i - 1] \in C
        BY <1>2, <1>6, <1>7
    <2> QED
        BY <1>3, <1>6, <2>1
<1> DEFINE S == {hop[j] : j \in 0..(i - 1)}
<1>9. S \in SUBSET FileSectors /\ s \in S
    BY <1>1, <1>2, <1>6, <1>7
<1>10. ASSUME NEW t \in S, img.sec[t].next # 0 PROVE img.sec[t].next \in S
    <2>1. PICK j \in 0..(i - 1) : t = hop[j]
        OBVIOUS
    <2>2. j + 1 \in 1..N /\ hop[j + 1] = img.sec[hop[(j + 1) - 1]].next
        BY <1>1, <1>2, <1>6, FormatAssumption
    <2>3. hop[j + 1] = img.sec[t].next
        BY <2>1, <2>2
    <2>4. j + 1 # i
        BY <1>8, <1>10, <2>3
    <2>5. j + 1 \in 0..(i - 1)
        BY <1>6, <2>1, <2>4
    <2> QED
        BY <2>3, <2>5
<1>11. C \subseteq S
    <2> HIDE DEF S
    <2> QED
        BY <1>9, <1>10, ChainIsLeast DEF C
<1>12. IsFiniteSet(S) /\ Cardinality(S) =< i
    <2> DEFINE f == [j \in 0..(i - 1) |-> hop[j]]
    <2>1. f \in Surjection(0..(i - 1), S)
        <3>1. f \in [0..(i - 1) -> S]
            OBVIOUS
        <3>2. \A t \in S : \E j \in 0..(i - 1) : f[j] = t
            OBVIOUS
        <3> HIDE DEF f, S
        <3> QED
            BY <3>1, <3>2, Fun_IsSurj
    <2>2. IsFiniteSet(0..(i - 1)) /\ Cardinality(0..(i - 1)) = i
        BY <1>6, FS_Interval
    <2> HIDE DEF f, S
    <2> QED
        BY <2>1, <2>2, FS_Surjection
<1>13. L =< Cardinality(S) /\ Cardinality(S) \in Nat
    <2> HIDE DEF S
    <2> QED
        BY <1>11, <1>12, FS_Subset, FS_CardinalityType DEF L
<1> QED
    BY <1>1, <1>6, <1>12, <1>13

\* A file is what it was if no sector of its chain has changed.
LEMMA SamePieces ==
    ASSUME NEW img \in Image, NEW new \in Image, NEW s \in 0..N,
           \A t \in Chain(img, s) : new.sec[t].next = img.sec[t].next
                                    /\ new.sec[t].payload = img.sec[t].payload
    PROVE  Pieces(new, s) = Pieces(img, s)
<1> DEFINE L == ChainLength(img, s)
           old == Hop(img.sec, s)
           hop == Hop(new.sec, s)
<1>1. Chain(new, s) = Chain(img, s)
    BY ChainUntouched
<1>2. L \in 0..N /\ ChainLength(new, s) = L
    BY <1>1, ChainCount DEF ChainLength
<1>3. \A k \in 0..(L - 1) : old[k] \in Chain(img, s)
    <2>1. CASE s = 0
        BY <2>1, ChainCount DEF ChainLength
    <2>2. CASE s # 0
        <3>1. s \in FileSectors
            BY <2>2, FormatAssumption DEF FileSectors
        <3> QED
            BY <3>1, HopInChain
    <2> QED
        BY <2>1, <2>2
<1>4. /\ old[0] = s /\ \A k \in 1..N : old[k] = img.sec[old[k - 1]].next
      /\ hop[0] = s /\ \A k \in 1..N : hop[k] = new.sec[hop[k - 1]].next
    BY HopUnfolds
<1> HIDE DEF old, hop, L
<1>5. \A k \in 0..(L - 1) : hop[k] = old[k]
    <2> DEFINE differ == {k \in 0..(L - 1) : hop[k] # old[k]}
    <2>1. SUFFICES ASSUME differ # {} PROVE FALSE
        OBVIOUS
    <2>2. differ \in SUBSET Nat
        BY <1>2
    <2>3. PICK k \in differ : \A j \in differ : k =< j
        BY <2>1, <2>2, LeastExists
    <2>4. k \in 0..(L - 1) /\ k # 0 /\ k \in 1..N /\ k - 1 \in 0..(L - 1)
        BY <1>2, <1>4, <2>3, FormatAssumption
    <2>5. hop[k - 1] = old[k - 1]
        BY <2>3, <2>4
    <2>6. hop[k] = new.sec[hop[k - 1]].next /\ old[k] = img.sec[old[k - 1]].next
        BY <1>4, <2>4
    <2>7. old[k - 1] \in Chain(img, s)
        BY <1>3, <2>4
    <2> QED
        BY <2>3, <2>5, <2>6, <2>7
<1>6. \A k \in 0..(L - 1) : new.sec[hop[k]].payload = img.sec[old[k]].payload
    BY <1>3, <1>5
<1>7. /\ Pieces(new, s) = [k \in 0..(L - 1) |-> new.sec[hop[k]].payload]
      /\ Pieces(img, s) = [k \in 0..(L - 1) |-> img.sec[old[k]].payload]
    BY <1>2 DEF Pieces, old, hop, L
<1> QED
    BY <1>6, <1>7

\* Sectors linked in order are read in order.
LEMMA LinkedInOrder ==
    ASSUME NEW img \in Image, NEW A \in SUBSET FileSectors, NEW s \in A,
           \A t \in A : s =< t, \A t \in A : LinksOn(img.sec[t].next, t, A)
    PROVE  /\ Chain(img, s) = A
           /\ \A k \in 0..(ChainLength(img, s) - 1) :
                 Hop(img.sec, s)[k] \in A /\ Rank(Hop(img.sec, s)[k], A) = k
<1> DEFINE hop == Hop(img.sec, s)
           L == ChainLength(img, s)
<1>1. Chain(img, s) = A
    <2>1. A \subseteq Chain(img, s)
        BY LinkedChainIsAll
    <2>2. \A t \in A : img.sec[t].next # 0 => img.sec[t].next \in A
        BY DEF LinksOn
    <2>3. Chain(img, s) \subseteq A
        BY <2>2, ChainIsLeast
    <2> QED
        BY <2>1, <2>3
<1>2. L \in 0..N
    BY ChainCount DEF ChainLength
<1>3. \A k \in 0..(L - 1) : hop[k] \in A
    BY <1>1, HopInChain
<1>4. hop[0] = s /\ \A k \in 1..N : hop[k] = img.sec[hop[k - 1]].next
    BY HopUnfolds
<1>5. \A t \in A : t \in 1..N
    BY DEF FileSectors
<1> HIDE DEF hop, L
<1>6. Rank(s, A) = 0
    <2>1. {y \in A : y < s} = {}
        BY <1>5, FormatAssumption
    <2> QED
        BY <2>1, FS_EmptySet DEF Rank
<1>7. ASSUME NEW t \in A, NEW u \in A, LinksOn(u, t, A)
      PROVE  Rank(u, A) = Rank(t, A) + 1
    <2>1. u > t /\ \A y \in A : y =< t \/ u =< y
        BY <1>5, <1>7, FormatAssumption DEF LinksOn
    <2>2. {y \in A : y < u} = {y \in A : y < t} \cup {t}
        BY <1>5, <2>1, FormatAssumption
    <2>3. t \notin {y \in A : y < t}
        BY <1>5, FormatAssumption
    <2>4. IsFiniteSet({y \in A : y < t})
        <3>1. IsFiniteSet(1..N)
            BY FS_Interval, FormatAssumption
        <3>2. {y \in A : y < t} \in SUBSET (1..N)
            BY <1>5
        <3> QED
            BY <3>1, <3>2, FS_Subset
    <2> QED
        BY <2>2, <2>3, <2>4, FS_AddElement DEF Rank
<1>8. \A k \in 0..(L - 1) : Rank(hop[k], A) = k
    <2> DEFINE wrong == {k \in 0..(L - 1) : Rank(hop[k], A) # k}
    <2>1. SUFFICES ASSUME wrong # {} PROVE FALSE
        OBVIOUS
    <2>2. wrong \in SUBSET Nat
        BY <1>2
    <2>3. PICK k \in wrong : \A j \in wrong : k =< j
        BY <2>1, <2>2, LeastExists
    <2>4. k \in 0..(L - 1) /\ k # 0 /\ k \in 1..N /\ k - 1 \in 0..(L - 1)
        BY <1>2, <1>4, <1>6, <2>3, FormatAssumption
    <2>5. Rank(hop[k - 1], A) = k - 1
        BY <2>3, <2>4
    <2>6. hop[k] = img.sec[hop[k - 1]].next /\ hop[k] \in A /\ hop[k - 1] \in A
        BY <1>3, <1>4, <2>4
    <2>7. LinksOn(hop[k], hop[k - 1], A)
        BY <2>6
    <2>8. Rank(hop[k], A) = Rank(hop[k - 1], A) + 1
        BY <1>7, <2>6, <2>7
    <2> QED
        BY <2>3, <2>4, <2>5, <2>8
<1> QED
    BY <1>1, <1>3, <1>8 DEF hop, L

-----------------------------------------------------------------------------
\* The host's blocks are at least one.
LEMMA BlocksType ==
    ASSUME NEW h \in HostFiles
    PROVE  BlocksNeeded(h) \in Nat \ {0}
  BY FormatAssumption DEF BlocksNeeded

\* Ranks count the elements of a set, from 0 on.
LEMMA RanksCount ==
    ASSUME NEW F \in SUBSET FileSectors
    PROVE  /\ IsFiniteSet(F) /\ Cardinality(F) \in Nat
           /\ [s \in F |-> Rank(s, F)] \in Bijection(F, 0..(Cardinality(F) - 1))
<1> DEFINE rank == [s \in F |-> Rank(s, F)]
           L == Cardinality(F)
           below(s) == {y \in F : y < s}
<1>1. IsFiniteSet(F) /\ L \in Nat /\ \A s \in F : s \in 1..N
    <2>1. IsFiniteSet(1..N) /\ F \in SUBSET (1..N)
        BY FS_Interval, FormatAssumption DEF FileSectors
    <2> QED
        BY <2>1, FS_Subset, FS_CardinalityType
<1>2. ASSUME NEW s \in F
      PROVE  /\ IsFiniteSet(below(s)) /\ IsFiniteSet(below(s) \cup {s})
             /\ Cardinality(below(s) \cup {s}) = Rank(s, F) + 1
             /\ Rank(s, F) \in Nat /\ below(s) \cup {s} \in SUBSET F
    <2>1. below(s) \in SUBSET F /\ s \notin below(s)
        BY <1>1, FormatAssumption
    <2>2. IsFiniteSet(below(s))
        BY <1>1, <2>1, FS_Subset
    <2>3. Cardinality(below(s)) = Rank(s, F)
        BY DEF Rank
    <2> HIDE DEF below
    <2>4. IsFiniteSet(below(s) \cup {s}) /\ Cardinality(below(s) \cup {s}) = Cardinality(below(s)) + 1
        BY <2>1, <2>2, FS_AddElement
    <2> QED
        BY <2>1, <2>2, <2>3, <2>4, FS_CardinalityType
<1>3. \A s \in F : Rank(s, F) \in 0..(L - 1)
    <2> SUFFICES ASSUME NEW s \in F PROVE Rank(s, F) \in 0..(L - 1)
        OBVIOUS
    <2>1. Cardinality(below(s) \cup {s}) =< L
        <3> HIDE DEF below
        <3> QED
            BY <1>1, <1>2, FS_Subset
    <2>2. Cardinality(below(s) \cup {s}) = Rank(s, F) + 1 /\ Rank(s, F) \in Nat
        BY <1>2
    <2> HIDE DEF below, L
    <2> QED
        BY <1>1, <2>1, <2>2
<1>4. ASSUME NEW s \in F, NEW t \in F, s < t PROVE Rank(s, F) < Rank(t, F)
    <2>1. below(s) \cup {s} \in SUBSET below(t)
        BY <1>1, <1>4, FormatAssumption
    <2>2. IsFiniteSet(below(t)) /\ Cardinality(below(t)) = Rank(t, F)
        BY <1>2 DEF Rank
    <2>3. Cardinality(below(s) \cup {s}) =< Cardinality(below(t))
        <3> HIDE DEF below
        <3> QED
            BY <2>1, <2>2, FS_Subset
    <2>4. Cardinality(below(s) \cup {s}) = Rank(s, F) + 1
        BY <1>2
    <2>5. Rank(s, F) \in Nat /\ Rank(t, F) \in Nat
        BY <1>2
    <2> HIDE DEF below
    <2> QED
        BY <2>2, <2>3, <2>4, <2>5
<1>5. \A s, t \in F : Rank(s, F) = Rank(t, F) => s = t
    <2> SUFFICES ASSUME NEW s \in F, NEW t \in F, s # t PROVE Rank(s, F) # Rank(t, F)
        OBVIOUS
    <2>1. s < t \/ t < s
        BY <1>1, FormatAssumption
    <2>2. Rank(s, F) \in Nat /\ Rank(t, F) \in Nat
        BY <1>2
    <2>3. Rank(s, F) < Rank(t, F) \/ Rank(t, F) < Rank(s, F)
        BY <1>4, <2>1
    <2> QED
        BY <2>2, <2>3
<1>6. rank \in Injection(F, 0..(L - 1))
    <2>1. rank \in [F -> 0..(L - 1)] /\ \A s \in F : rank[s] = Rank(s, F)
        BY <1>3
    <2>2. \A s, t \in F : rank[s] = rank[t] => s = t
        BY <1>5, <2>1
    <2> HIDE DEF rank
    <2> QED
        BY <2>1, <2>2, Fun_IsInj
<1>7. IsFiniteSet(0..(L - 1)) /\ Cardinality(0..(L - 1)) = L
    BY <1>1, FS_Interval
<1>8. rank \in Surjection(F, 0..(L - 1))
    <2> HIDE DEF rank
    <2> QED
        BY <1>6, <1>7, FS_Injection
<1>9. rank \in Bijection(F, 0..(L - 1))
    <2> HIDE DEF rank
    <2> QED
        BY <1>6, <1>8 DEF Bijection
<1> QED
    BY <1>1, <1>9

\* The first n of at least n sectors are n.
LEMMA FirstCount ==
    ASSUME NEW F \in SUBSET FileSectors, NEW n \in Nat, n =< Cardinality(F)
    PROVE  Cardinality({s \in F : Rank(s, F) < n}) = n
<1> DEFINE rank == [s \in F |-> Rank(s, F)]
           A == {s \in F : Rank(s, F) < n}
           f == [s \in A |-> Rank(s, F)]
<1>1. /\ IsFiniteSet(F) /\ Cardinality(F) \in Nat
      /\ rank \in Bijection(F, 0..(Cardinality(F) - 1))
    BY RanksCount
<1>2. /\ \A s \in F : Rank(s, F) \in 0..(Cardinality(F) - 1)
      /\ \A s, t \in F : Rank(s, F) = Rank(t, F) => s = t
      /\ \A k \in 0..(Cardinality(F) - 1) : \E s \in F : Rank(s, F) = k
    BY <1>1 DEF Bijection, Injection, Surjection, IsInjective
<1>3. f \in Bijection(A, 0..(n - 1))
    <2>1. f \in [A -> 0..(n - 1)] /\ \A s \in A : f[s] = Rank(s, F)
        BY <1>2
    <2>2. \A s, t \in A : f[s] = f[t] => s = t
        BY <1>2, <2>1
    <2>3. \A k \in 0..(n - 1) : \E s \in A : f[s] = k
        <3> SUFFICES ASSUME NEW k \in 0..(n - 1) PROVE \E s \in A : f[s] = k
            OBVIOUS
        <3>1. k \in 0..(Cardinality(F) - 1)
            BY <1>1
        <3>2. PICK s \in F : Rank(s, F) = k
            BY <1>2, <3>1
        <3>3. s \in A
            BY <3>2
        <3> QED
            BY <2>1, <3>2, <3>3
    <2> HIDE DEF f, A
    <2> QED
        BY <2>1, <2>2, <2>3, Fun_IsBij
<1>4. IsFiniteSet(A)
    BY <1>1, FS_Subset
<1>5. Cardinality(0..(n - 1)) = n
    BY FS_Interval
<1> HIDE DEF A, f
<1>6. ExistsBijection(A, 0..(n - 1))
    BY <1>3, Fun_ExistsBij
<1>7. Cardinality(0..(n - 1)) = Cardinality(A)
    BY <1>4, <1>6, FS_Bijection
<1> QED
    BY <1>5, <1>7 DEF A

-----------------------------------------------------------------------------
(* The volume an image stands for.                                         *)

LEMMA FileIsNoClearedEntry ==
    ASSUME NEW img, NEW d
    PROVE  FileIn(img, d) # ClearedEntry
<1>1. "data" \in DOMAIN FileIn(img, d)
    BY DEF FileIn
<1>2. "data" \notin DOMAIN ClearedEntry
    BY DEF ClearedEntry
<1> QED
    BY <1>1, <1>2

LEMMA VolumeSlot ==
    ASSUME NEW img, NEW d \in Slots
    PROVE  /\ d \in LiveSlots(img) => Volume(img)[d] = FileIn(img, d)
           /\ d \notin LiveSlots(img) => Volume(img)[d] = ClearedEntry
  BY DEF Volume, LiveSlots

\* The slots whose file has the name.
FilesOf(img, name) ==
    {d \in LiveSlots(img) : DirectoryEntryToWindowsName(img.dir[d]) = name}

\* The editor looks at one of them, and finds none if there is none.
LEMMA FilesOfVolume ==
    ASSUME NEW img, NEW name
    PROVE  /\ FilesOf(img, name)
                 = {d \in Slots : Volume(img)[d] # ClearedEntry /\ Volume(img)[d].name = name}
           /\ FindEntryByName(img, name) = {} => FilesOf(img, name) = {}
           /\ FindEntryByName(img, name) \subseteq FilesOf(img, name)
<1>1. \A d \in LiveSlots(img) : d \in Slots /\ Volume(img)[d] = FileIn(img, d)
    BY VolumeSlot DEF LiveSlots
<1>2. \A d \in Slots : Volume(img)[d] # ClearedEntry => d \in LiveSlots(img)
    BY VolumeSlot
<1>3. \A d : FileIn(img, d).name = DirectoryEntryToWindowsName(img.dir[d])
    BY DEF FileIn
<1>4. ASSUME FilesOf(img, name) # {} PROVE FindEntryByName(img, name) # {}
    <2>1. FilesOf(img, name) \in SUBSET Nat
        BY FormatAssumption DEF FilesOf, LiveSlots, Slots
    <2>2. \E d \in FilesOf(img, name) : \A e \in FilesOf(img, name) : d =< e
        BY <1>4, <2>1, LeastExists
    <2> QED
        BY <2>2 DEF FindEntryByName, FilesOf, Least
<1>5. FindEntryByName(img, name) \subseteq FilesOf(img, name)
    BY DEF FindEntryByName, FilesOf, Least
<1>6. FilesOf(img, name)
          = {d \in Slots : Volume(img)[d] # ClearedEntry /\ Volume(img)[d].name = name}
    <2>1. \A d \in FilesOf(img, name) :
              d \in Slots /\ Volume(img)[d] # ClearedEntry /\ Volume(img)[d].name = name
        BY <1>1, <1>3, FileIsNoClearedEntry DEF FilesOf
    <2>2. \A d \in Slots : Volume(img)[d] # ClearedEntry /\ Volume(img)[d].name = name
                              => d \in FilesOf(img, name)
        BY <1>1, <1>2, <1>3 DEF FilesOf
    <2> QED
        BY <2>1, <2>2
<1> QED
    BY <1>4, <1>5, <1>6

\* new stands for img's files but in slot d, whose entry is now the given one.
OneSlotDiffers(new, img, d, entry) ==
    /\ new.dir[d] = entry
    /\ Volume(new) = [Volume(img) EXCEPT
                         ![d] = IF IsLive(entry) THEN FileIn(new, d) ELSE ClearedEntry]

LEMMA OtherSlots ==
    ASSUME NEW img \in Image, NEW new \in Image, NEW d \in Slots, NEW entry,
           new.dir = [img.dir EXCEPT ![d] = entry],
           \A e \in LiveSlots(img) \ {d} : Pieces(new, img.dir[e].start) = Pieces(img, img.dir[e].start)
    PROVE  OneSlotDiffers(new, img, d, entry)
<1>1. img.dir \in [Slots -> Entry]
    BY DEF Image
<1>2. /\ new.dir[d] = entry
      /\ \A e \in Slots \ {d} : new.dir[e] = img.dir[e]
      /\ d \in LiveSlots(new) <=> IsLive(entry)
      /\ \A e \in Slots \ {d} : e \in LiveSlots(new) <=> e \in LiveSlots(img)
    BY <1>1, LiveSlotsOf
<1>3. ASSUME NEW e \in Slots \ {d} PROVE Volume(new)[e] = Volume(img)[e]
    <2>1. CASE e \in LiveSlots(img)
        <3>1. Pieces(new, new.dir[e].start) = Pieces(img, img.dir[e].start)
            BY <1>2, <2>1
        <3>2. FileIn(new, e) = FileIn(img, e)
            BY <1>2, <3>1 DEF FileIn
        <3> QED
            BY <1>2, <2>1, <3>2, VolumeSlot
    <2>2. CASE e \notin LiveSlots(img)
        BY <1>2, <2>2, VolumeSlot
    <2> QED
        BY <2>1, <2>2
<1>4. Volume(new)[d] = IF IsLive(entry) THEN FileIn(new, d) ELSE ClearedEntry
    BY <1>2, VolumeSlot
<1>5. /\ Volume(new) = [e \in Slots |-> Volume(new)[e]]
      /\ Volume(img) = [e \in Slots |-> Volume(img)[e]]
    BY DEF Volume
<1> DEFINE there == IF IsLive(entry) THEN FileIn(new, d) ELSE ClearedEntry
           vol == Volume(new)
           old == Volume(img)
<1> HIDE DEF there, vol, old
<1>6. /\ vol = [e \in Slots |-> vol[e]] /\ old = [e \in Slots |-> old[e]]
      /\ \A e \in Slots \ {d} : vol[e] = old[e]
      /\ vol[d] = there
    BY <1>3, <1>4, <1>5 DEF there, vol, old
<1>7. vol = [old EXCEPT ![d] = there]
    BY <1>6
<1> QED
    BY <1>2, <1>7 DEF OneSlotDiffers, there, vol, old

-----------------------------------------------------------------------------
(* What an operation is about.                                             *)

\* What each operation is about, and what an import has stored so far.
StoringFile ==
    /\ op.name \in Targets /\ op.host \in HostFiles
    /\ FindEntryByName(before, op.name) = {}
    /\ work.entry = NewEntry(op.name, work.entry.start)
    /\ Cardinality(work.alloc) = BlocksNeeded(op.host)
    /\ \A t \in work.alloc \ work.todo :
          image.sec[t].payload = <<op.host, Rank(t, work.alloc)>>
    /\ \A t \in FileSectors \ (work.alloc \ work.todo) :
          image.sec[t].payload = before.sec[t].payload

DroppingFile ==
    /\ op.name \in Targets
    /\ work.slot \in FindEntryByName(before, op.name)

NamingFile ==
    /\ op.name \in Targets /\ op.new \in Targets
    /\ work.slot \in FindEntryByName(before, op.name)
    /\ op.name # op.new => FindEntryByName(before, op.new) = {}
    /\ work.entry = [before.dir[work.slot] EXCEPT
                        !.type = RenamedType(@, op.new.ext),
                        !.base = NormalBase[op.new.base]]

Contents ==
    pc \in Writing => /\ op.kind = "add" => StoringFile
                      /\ op.kind = "delete" => DroppingFile
                      /\ op.kind = "rename" => NamingFile

\* Nothing of this changes but the sectors an import stores.
LEMMA ContentsKept ==
    ASSUME Contents, pc \in Writing, op' = op, before' = before, work' = work,
           image'.sec = image.sec
    PROVE  Contents'
<1>1. \A name : FindEntryByName(before, name)' = FindEntryByName(before, name)
    BY DEF FindEntryByName, LiveSlots, Least, DirectoryEntryToWindowsName
<1>2. /\ BlocksNeeded(op.host)' = BlocksNeeded(op.host)
      /\ NewEntry(op.name, work.entry.start)' = NewEntry(op.name, work.entry.start)
      /\ \A t : Rank(t, work.alloc)' = Rank(t, work.alloc)
    BY DEF BlocksNeeded, NewEntry, Rank
<1>3. CASE op.kind = "add"
    <2>1. StoringFile
        BY <1>3 DEF Contents
    <2>2. StoringFile'
        BY <1>1, <1>2, <2>1 DEF StoringFile
    <2> QED
        BY <1>3, <2>2 DEF Contents
<1>4. CASE op.kind = "delete"
    <2>1. DroppingFile
        BY <1>4 DEF Contents
    <2>2. DroppingFile'
        BY <1>1, <2>1 DEF DroppingFile
    <2> QED
        BY <1>4, <2>2 DEF Contents
<1>5. CASE op.kind = "rename"
    <2>1. NamingFile
        BY <1>5 DEF Contents
    <2>2. NamingFile'
        BY <1>1, <2>1 DEF NamingFile, RenamedType, ExtensionToFileType
    <2> QED
        BY <1>5, <2>2 DEF Contents
<1> QED
    BY <1>3, <1>4, <1>5 DEF Contents

LEMMA AddFileContents ==
    ASSUME IInv, Progress, NEW name \in Targets, NEW h \in HostFiles \cup {Missing},
           AddFile(name, h)
    PROVE  Contents'
<1> DEFINE call == [kind |-> "add", name |-> name, host |-> h]
<1>1. BeginTransaction(call)
    BY DEF AddFile
<1>2. CASE Refuse
    BY <1>2 DEF Refuse, Contents, Writing
<1>3. CASE ~ Refuse
    <2>1. /\ ~ AddRefused(name, h)
          /\ \E d \in FindFreeDirectoryEntry(image), first \in Least(Allocated(h)) :
                work' = [slot |-> d, entry |-> NewEntry(name, first),
                         bam |-> image.bam,
                         alloc |-> Allocated(h), todo |-> Allocated(h)]
        BY <1>3 DEF AddFile
    <2>2. PICK d \in FindFreeDirectoryEntry(image), first \in Least(Allocated(h)) :
                work' = [slot |-> d, entry |-> NewEntry(name, first),
                         bam |-> image.bam,
                         alloc |-> Allocated(h), todo |-> Allocated(h)]
        BY <2>1
    <2>3. op' = call /\ UNCHANGED <<image, before>> /\ before = image
        BY <1>1 DEF BeginTransaction, Progress
    <2>4. op'.kind = "add" /\ op'.name = name /\ op'.host = h
        BY <2>3
    <2>5. h \in HostFiles /\ FindEntryByName(image, name) = {}
          /\ ~ (Cardinality(FreeSectors(image.bam)) < BlocksNeeded(h))
        BY <2>1 DEF AddRefused
    <2>6. Cardinality(Allocated(h)) = BlocksNeeded(h)
        <3>1. FreeSectors(image.bam) \in SUBSET FileSectors
            BY DEF FreeSectors
        <3>2. BlocksNeeded(h) \in Nat /\ Cardinality(FreeSectors(image.bam)) \in Nat
            BY <2>5, <3>1, BlocksType, SectorSetsCount
        <3> QED
            BY <2>5, <3>1, <3>2, FirstCount DEF Allocated
    <2>7. /\ work'.entry = NewEntry(name, first) /\ work'.entry.start = first
          /\ work'.alloc = Allocated(h) /\ work'.todo = Allocated(h)
        BY <2>2 DEF NewEntry
    <2>8. /\ FindEntryByName(before, op.name)' = FindEntryByName(image, name)
          /\ BlocksNeeded(op.host)' = BlocksNeeded(h)
          /\ NewEntry(op.name, work.entry.start)' = NewEntry(name, first)
        BY <2>3, <2>4, <2>7 DEF FindEntryByName, LiveSlots, Least,
           DirectoryEntryToWindowsName, BlocksNeeded, NewEntry
    <2>9. work'.alloc \ work'.todo = {}
        BY <2>7
    <2>10. StoringFile'
        BY <2>3, <2>4, <2>5, <2>6, <2>7, <2>8, <2>9 DEF StoringFile
    <2> QED
        BY <2>4, <2>10 DEF Contents
<1> QED
    BY <1>2, <1>3

LEMMA DeleteFileContents ==
    ASSUME IInv, Progress, NEW name \in Targets, DeleteFile(name)
    PROVE  Contents'
<1> DEFINE call == [kind |-> "delete", name |-> name]
<1>1. BeginTransaction(call)
    BY DEF DeleteFile
<1>2. CASE Refuse
    BY <1>2 DEF Refuse, Contents, Writing
<1>3. CASE ~ Refuse
    <2>1. PICK d \in FindEntryByName(image, name) : work'.slot = d
        BY <1>3 DEF DeleteFile
    <2>2. op' = call /\ UNCHANGED <<image, before>> /\ before = image
        BY <1>1 DEF BeginTransaction, Progress
    <2>3. op'.kind = "delete" /\ op'.name = name
        BY <2>2
    <2>4. FindEntryByName(before, op.name)' = FindEntryByName(image, name)
        BY <2>2, <2>3 DEF FindEntryByName, LiveSlots, Least, DirectoryEntryToWindowsName
    <2>5. DroppingFile'
        BY <2>1, <2>3, <2>4 DEF DroppingFile
    <2> QED
        BY <2>3, <2>5 DEF Contents
<1> QED
    BY <1>2, <1>3

LEMMA RenameFileContents ==
    ASSUME IInv, Progress, NEW name \in Targets, NEW new \in Targets,
           RenameFile(name, new)
    PROVE  Contents'
<1> DEFINE call == [kind |-> "rename", name |-> name, new |-> new]
<1> DEFINE renamed(d) ==
        [image.dir[d] EXCEPT !.type = RenamedType(@, new.ext),
                             !.base = NormalBase[new.base]]
<1>1. BeginTransaction(call)
    BY DEF RenameFile
<1>2. CASE Refuse
    BY <1>2 DEF Refuse, Contents, Writing
<1>3. CASE ~ Refuse
    <2>1. ~ RenameRefused(name, new) /\ \E d \in FindEntryByName(image, name) :
                work' = [slot |-> d, entry |-> renamed(d), bam |-> image.bam,
                         alloc |-> {}, todo |-> {}]
        BY <1>3 DEF RenameFile
    <2>2. PICK d \in FindEntryByName(image, name) :
                work' = [slot |-> d, entry |-> renamed(d), bam |-> image.bam,
                         alloc |-> {}, todo |-> {}]
        BY <2>1
    <2>3. work'.slot = d /\ work'.entry = renamed(d)
        BY <2>2
    <2>4. op' = call /\ UNCHANGED <<image, before>> /\ before = image
        BY <1>1 DEF BeginTransaction, Progress
    <2>5. op'.kind = "rename" /\ op'.name = name /\ op'.new = new
        BY <2>4
    <2>6. \A n : FindEntryByName(before, n)' = FindEntryByName(image, n)
        BY <2>4 DEF FindEntryByName, LiveSlots, Least, DirectoryEntryToWindowsName
    <2>7. name # new => FindEntryByName(image, new) = {}
        BY <2>1 DEF RenameRefused
    <2>8. /\ work'.slot \in FindEntryByName(before, op.name)'
          /\ op'.name # op'.new => FindEntryByName(before, op.new)' = {}
        BY <2>3, <2>5, <2>6, <2>7
    <2>9. NamingFile'
        BY <2>3, <2>4, <2>5, <2>8 DEF NamingFile, RenamedType, ExtensionToFileType
    <2> QED
        BY <2>5, <2>9 DEF Contents
<1> QED
    BY <1>2, <1>3

\* The piece that goes into a sector is the one the sector's place calls for.
LEMMA WriteDataContents ==
    ASSUME IInv, Progress, Contents, WriteData
    PROVE  Contents'
<1> USE DEF IInv, TypeOK
<1>1. /\ pc = "addData" /\ pc \in Writing /\ op.kind = "add"
      /\ Importing /\ StoringFile /\ work \in Work
    BY DEF WriteData, Progress, Importing, Deleting, Renaming, Writing, Contents
<1>2. PICK s \in Least(work.todo) :
          /\ work' = [work EXCEPT !.bam = MarkSectorUsed(@, s), !.todo = @ \ {s}]
          /\ Proceed(IF work.todo = {s} THEN "writeEntry" ELSE "addData")
    BY DEF WriteData
<1>3. /\ work.todo \subseteq work.alloc /\ work.alloc \subseteq FileSectors
      /\ s \in work.todo /\ s \in FileSectors
    BY <1>1, <1>2 DEF Importing, Work, Least
<1>4. op' = op /\ before' = before /\ image' \in NextWrite
    BY <1>2 DEF Proceed
<1>5. PICK next \in LinkAfter(s) : image' = [image EXCEPT !.sec[s] = DataSector(s, next)]
    <2>1. image' \in UNION {{[image EXCEPT !.sec[r] = DataSector(r, next)] :
                                next \in LinkAfter(r)} : r \in Least(work.todo)}
        BY <1>1, <1>4 DEF NextWrite
    <2>2. PICK r \in Least(work.todo) :
              \E next \in LinkAfter(r) : image' = [image EXCEPT !.sec[r] = DataSector(r, next)]
        BY <2>1
    <2>3. r = s
        BY <1>2, <1>3, <2>2 DEF Least, FileSectors
    <2> QED
        BY <2>2, <2>3
<1>6. /\ image'.sec = [image.sec EXCEPT ![s] = DataSector(s, next)]
      /\ image.sec \in [FileSectors -> Sector]
    BY <1>5 DEF Image
<1>7. /\ image'.sec[s].payload = <<op.host, Rank(s, work.alloc)>>
      /\ \A t \in FileSectors \ {s} : image'.sec[t].payload = image.sec[t].payload
    BY <1>3, <1>6 DEF DataSector
<1>8. /\ work'.alloc = work.alloc /\ work'.todo = work.todo \ {s}
      /\ work'.entry = work.entry
    BY <1>1, <1>2 DEF Work
<1>9. work'.alloc \ work'.todo = (work.alloc \ work.todo) \cup {s}
    BY <1>3, <1>8
<1>10. /\ FindEntryByName(before, op.name)' = FindEntryByName(before, op.name)
       /\ BlocksNeeded(op.host)' = BlocksNeeded(op.host)
       /\ NewEntry(op.name, work.entry.start)' = NewEntry(op.name, work.entry.start)
       /\ \A t : Rank(t, work.alloc)' = Rank(t, work.alloc)
    BY <1>4, <1>8 DEF FindEntryByName, LiveSlots, Least, DirectoryEntryToWindowsName,
       BlocksNeeded, NewEntry, Rank
<1>11. \A t \in work'.alloc \ work'.todo :
           image'.sec[t].payload = <<op.host, Rank(t, work.alloc)>>
    BY <1>1, <1>3, <1>7, <1>9 DEF StoringFile
<1>12. \A t \in FileSectors \ (work'.alloc \ work'.todo) :
           image'.sec[t].payload = before.sec[t].payload
    BY <1>1, <1>3, <1>7, <1>9 DEF StoringFile
<1>13. StoringFile'
    BY <1>1, <1>4, <1>8, <1>10, <1>11, <1>12 DEF StoringFile
<1> QED
    BY <1>1, <1>4, <1>13 DEF Contents

LEMMA ContentsStep == IInv /\ Progress /\ Contents /\ [Next]_vars => Contents'
<1> SUFFICES ASSUME IInv, Progress, Contents, [Next]_vars PROVE Contents'
    OBVIOUS
<1>1. CASE Call
    BY <1>1, AddFileContents, DeleteFileContents, RenameFileContents DEF Call
<1>2. CASE WriteData
    BY <1>2, WriteDataContents
<1>3. CASE WriteEntry \/ SaveBam
    <2>1. /\ pc \in Writing /\ work' = work /\ op' = op /\ before' = before
          /\ image' \in NextWrite /\ pc # "addData"
        BY <1>3 DEF WriteEntry, SaveBam, Proceed, Writing
    <2>2. image'.sec = image.sec
        BY <2>1 DEF NextWrite, IInv, TypeOK, Image
    <2> QED
        BY <2>1, <2>2, ContentsKept
<1>4. CASE Open \/ OpenFails \/ BeginFails \/ CommitRename \/ VerifyAndCommit \/ VerifyFails
           \/ WriteFails \/ Rollback \/ RollbackFails \/ Crash
    <2>1. pc' \notin Writing
        BY <1>4 DEF Open, OpenFails, BeginFails, CommitRename, VerifyAndCommit, CommitTransaction,
           VerifyFails, WriteFails, StartRollback, Rollback, RollbackFails, Crash, Writing
    <2> QED
        BY <2>1 DEF Contents
<1>5. CASE UNCHANGED vars
    <2>1. UNCHANGED <<image, pc, op, work, before>>
        BY <1>5 DEF vars
    <2>2. pc \notin Writing => Contents'
        BY <2>1 DEF Contents, Writing
    <2>3. pc \in Writing => Contents'
        BY <2>1, ContentsKept
    <2> QED
        BY <2>2, <2>3
<1> QED
    BY <1>1, <1>2, <1>3, <1>4, <1>5 DEF Next, Step

-----------------------------------------------------------------------------
(* What a successful operation makes of the volume.                        *)

\* The operations of AtomicVolume, from one volume to the next.
Holding(vol, name) == {d \in Slots : vol[d] # ClearedEntry /\ vol[d].name = name}
Stores(vol, new, name, h) ==
    /\ Holding(vol, name) = {}
    /\ \E d \in Slots :
          /\ vol[d] = ClearedEntry
          /\ new = [vol EXCEPT ![d] = [name |-> StoredName[name], data |-> HostPieces(h)]]
Drops(vol, new, name) ==
    \E d \in Holding(vol, name) : new = [vol EXCEPT ![d] = ClearedEntry]
Renames(vol, new, name, to) ==
    /\ name # to => Holding(vol, to) = {}
    /\ \E d \in Holding(vol, name) : new = [vol EXCEPT ![d].name = StoredName[to]]

\* The name a renamed or a new entry has is the one it would be stored under.
LEMMA StoredUnder ==
    ASSUME NEW name \in Targets, NEW entry,
           entry.base = NormalBase[name.base],
           entry.type % 8 = ExtensionToFileType(name.ext)
    PROVE  DirectoryEntryToWindowsName(entry) = StoredName[name]
<1>1. StoredName[name] = DirectoryEntryToWindowsName(NewEntry(name, 0))
    BY DEF StoredName
<1>2. /\ NewEntry(name, 0).base = NormalBase[name.base]
      /\ NewEntry(name, 0).type = 128 + ExtensionToFileType(name.ext)
    BY DEF NewEntry
<1>3. 0 \in Bytes
    BY DEF Bytes
<1>4. (NewEntry(name, 0).type % 8) = ExtensionToFileType(name.ext)
    <2>1. ((128 + ExtensionToFileType(name.ext)) % 8) = ExtensionToFileType(name.ext)
        BY <1>3, KindsKept
    <2> QED
        BY <1>2, <2>1
<1>5. FileTypeToExtension(entry.type) = FileTypeToExtension(NewEntry(name, 0).type)
    BY <1>4, Zenon DEF FileTypeToExtension
<1> QED
    BY <1>1, <1>2, <1>5, Zenon DEF DirectoryEntryToWindowsName

\* Clearing or renaming an entry leaves every file's contents alone.
LEMMA SameSectorsSamePieces ==
    ASSUME NEW img \in Image, NEW new \in Image, new.sec = img.sec, NEW e \in Slots
    PROVE  Pieces(new, img.dir[e].start) = Pieces(img, img.dir[e].start)
<1>1. img.dir[e].start \in 0..N
    BY DEF Image, Entry
<1> QED
    BY <1>1, SamePieces

LEMMA ClearingDrops ==
    ASSUME NEW img \in Image, NEW new \in Image, NEW name,
           NEW d \in FindEntryByName(img, name), NEW entry, ~ IsLive(entry),
           new.sec = img.sec, new.dir = [img.dir EXCEPT ![d] = entry]
    PROVE  Drops(Volume(img), Volume(new), name)
<1>1. d \in Slots /\ d \in LiveSlots(img)
    BY DEF FindEntryByName, Least, LiveSlots
<1>2. Volume(new) = [Volume(img) EXCEPT ![d] = ClearedEntry]
    <2>1. \A e \in LiveSlots(img) \ {d} :
              Pieces(new, img.dir[e].start) = Pieces(img, img.dir[e].start)
        BY SameSectorsSamePieces DEF LiveSlots
    <2>2. OneSlotDiffers(new, img, d, entry)
        BY <1>1, <2>1, OtherSlots
    <2> QED
        BY <2>2 DEF OneSlotDiffers
<1>3. d \in Holding(Volume(img), name)
    BY FilesOfVolume DEF Holding
<1> QED
    BY <1>2, <1>3 DEF Drops

LEMMA NamingRenames ==
    ASSUME NEW img \in Image, NEW new \in Image, NEW name, NEW to \in Targets,
           NEW d \in FindEntryByName(img, name), NEW entry, IsLive(entry),
           new.sec = img.sec, new.dir = [img.dir EXCEPT ![d] = entry],
           entry.start = img.dir[d].start, DirectoryEntryToWindowsName(entry) = StoredName[to],
           name # to => FindEntryByName(img, to) = {}
    PROVE  Renames(Volume(img), Volume(new), name, to)
<1>1. d \in Slots /\ d \in LiveSlots(img)
    BY DEF FindEntryByName, Least, LiveSlots
<1>2. /\ new.dir[d] = entry
      /\ Volume(new) = [Volume(img) EXCEPT ![d] = FileIn(new, d)]
    <2>1. \A e \in LiveSlots(img) \ {d} :
              Pieces(new, img.dir[e].start) = Pieces(img, img.dir[e].start)
        BY SameSectorsSamePieces DEF LiveSlots
    <2>2. OneSlotDiffers(new, img, d, entry)
        BY <1>1, <2>1, OtherSlots
    <2> QED
        BY <2>2 DEF OneSlotDiffers
<1>3. FileIn(new, d) = [FileIn(img, d) EXCEPT !.name = StoredName[to]]
    <2>1. Pieces(new, entry.start) = Pieces(img, img.dir[d].start)
        BY <1>1, SameSectorsSamePieces
    <2> QED
        BY <1>2, <2>1 DEF FileIn
<1>4. Volume(img)[d] = FileIn(img, d)
    BY <1>1, VolumeSlot
<1>5. Volume(new) = [Volume(img) EXCEPT ![d].name = StoredName[to]]
    <2> DEFINE vol == Volume(img)
               file == FileIn(new, d)
    <2>1. file = [vol[d] EXCEPT !.name = StoredName[to]]
        BY <1>3, <1>4
    <2> HIDE DEF vol, file
    <2>2. [vol EXCEPT ![d] = file] = [vol EXCEPT ![d].name = StoredName[to]]
        BY <2>1
    <2> QED
        BY <1>2, <2>2, Zenon DEF vol, file
<1>6. d \in Holding(Volume(img), name)
    BY FilesOfVolume DEF Holding
<1>7. name # to => Holding(Volume(img), to) = {}
    BY FilesOfVolume DEF Holding
<1> QED
    BY <1>5, <1>6, <1>7 DEF Renames

\* Sectors linked in order that hold the pieces in order hold the host file.
LEMMA StoredPieces ==
    ASSUME NEW img \in Image, NEW A \in SUBSET FileSectors, NEW s \in A,
           \A t \in A : s =< t, \A t \in A : LinksOn(img.sec[t].next, t, A),
           NEW h \in HostFiles, Cardinality(A) = BlocksNeeded(h),
           \A t \in A : img.sec[t].payload = <<h, Rank(t, A)>>
    PROVE  Pieces(img, s) = HostPieces(h)
<1> DEFINE L == ChainLength(img, s)
           hop == Hop(img.sec, s)
<1>1. /\ Chain(img, s) = A
      /\ \A k \in 0..(L - 1) : hop[k] \in A /\ Rank(hop[k], A) = k
    BY LinkedInOrder
<1>2. L = BlocksNeeded(h)
    BY <1>1 DEF ChainLength
<1>3. Pieces(img, s) = [k \in 0..(L - 1) |-> img.sec[hop[k]].payload]
    BY DEF Pieces
<1> HIDE DEF L, hop
<1>4. \A k \in 0..(L - 1) : img.sec[hop[k]].payload = <<h, k>>
    BY <1>1
<1> QED
    BY <1>2, <1>3, <1>4 DEF HostPieces

LEMMA ImportStores ==
    ASSUME NEW img \in Image, NEW new \in Image, Sound(img), NEW name, NEW h \in HostFiles,
           NEW d, NEW A, Extended(new, img, d, A), FindEntryByName(img, name) = {},
           NEW entry, new.dir = [img.dir EXCEPT ![d] = entry],
           DirectoryEntryToWindowsName(entry) = StoredName[name],
           Pieces(new, entry.start) = HostPieces(h),
           \A t \in FileSectors \ A : new.sec[t].payload = img.sec[t].payload
    PROVE  \/ Volume(new) = Volume(img)
           \/ Stores(Volume(img), Volume(new), name, h)
<1>1. d \in Slots /\ d \notin LiveSlots(img) /\ A \subseteq FileSectors
    BY DEF Extended
<1>2. \A e \in LiveSlots(img) \ {d} :
          Pieces(new, img.dir[e].start) = Pieces(img, img.dir[e].start)
    <2> SUFFICES ASSUME NEW e \in LiveSlots(img) \ {d}
                 PROVE  Pieces(new, img.dir[e].start) = Pieces(img, img.dir[e].start)
        OBVIOUS
    <2>1. img.dir[e].start \in 0..N
        BY StartType
    <2>2. ASSUME NEW t \in Chain(img, img.dir[e].start)
          PROVE  /\ new.sec[t].next = img.sec[t].next
                 /\ new.sec[t].payload = img.sec[t].payload
        <3>1. ~ img.bam.free[t] /\ t \in FileSectors
            BY FilesAreUsed
        <3>2. t \notin A
            BY <3>1 DEF Extended
        <3> QED
            BY <3>1, <3>2 DEF Extended
    <2> QED
        BY <2>1, <2>2, SamePieces
<1>3. OneSlotDiffers(new, img, d, entry)
    BY <1>1, <1>2, OtherSlots
<1>4. Volume(img)[d] = ClearedEntry /\ Volume(img) = [e \in Slots |-> Volume(img)[e]]
    <2>1. Volume(img)[d] = ClearedEntry
        BY <1>1, VolumeSlot
    <2>2. Volume(img) = [e \in Slots |-> Volume(img)[e]]
        BY DEF Volume
    <2> QED
        BY <2>1, <2>2
<1>5. CASE IsLive(entry)
    <2>1. FileIn(new, d) = [name |-> StoredName[name], data |-> HostPieces(h)]
        BY <1>3 DEF FileIn, OneSlotDiffers
    <2>2. Holding(Volume(img), name) = {}
        BY FilesOfVolume DEF Holding
    <2> QED
        BY <1>1, <1>3, <1>4, <1>5, <2>1, <2>2 DEF Stores, OneSlotDiffers
<1>6. CASE ~ IsLive(entry)
    <2>1. Volume(new) = [Volume(img) EXCEPT ![d] = ClearedEntry]
        BY <1>3, <1>6 DEF OneSlotDiffers
    <2> DEFINE vol == Volume(img)
    <2> HIDE DEF vol
    <2>2. vol = [e \in Slots |-> vol[e]] /\ vol[d] = ClearedEntry
        BY <1>4 DEF vol
    <2>3. [vol EXCEPT ![d] = ClearedEntry] = vol
        BY <2>2
    <2> QED
        BY <2>1, <2>3 DEF vol
<1> QED
    BY <1>5, <1>6

\* One of the operations of AtomicVolume, or none.
VolumeMoves(vol, new) ==
    \/ new = vol
    \/ \E name \in Targets :
          \/ \E h \in HostFiles : Stores(vol, new, name, h)
          \/ Drops(vol, new, name)
          \/ \E to \in Targets : Renames(vol, new, name, to)

\* A commit is one operation on the volume, or none.
LEMMA CommitMovesVolume ==
    ASSUME IInv, Progress, Contents, Sound(before), CommitRename \/ VerifyAndCommit
    PROVE  VolumeMoves(Volume(before), Volume(image'))
<1>1. /\ image \in Image /\ before \in Image /\ pc \in Writing /\ image' \in NextWrite
    BY DEF IInv, TypeOK, CommitRename, VerifyAndCommit, CommitTransaction, Writing
<1>2. image' \in Image /\ before.dir \in [Slots -> Entry]
    BY <1>1, NextWriteType DEF Image
<1>3. CASE Renaming
    <2> DEFINE old == before.dir[work.slot]
    <2>1. NamingFile
        BY <1>1, <1>3 DEF Contents, Renaming
    <2>2. image' = [before EXCEPT !.dir[work.slot] = work.entry]
        BY <1>1, <1>3 DEF Renaming, NextWrite
    <2>3. /\ image'.sec = before.sec
          /\ image'.dir = [before.dir EXCEPT ![work.slot] = work.entry]
        BY <1>1, <2>2 DEF Image
    <2>4. /\ op.name \in Targets /\ op.new \in Targets
          /\ work.slot \in FindEntryByName(before, op.name) /\ work.slot \in Slots
          /\ op.name # op.new => FindEntryByName(before, op.new) = {}
        BY <1>3, <2>1 DEF NamingFile, Renaming, LiveSlots
    <2>5. /\ work.entry.start = old.start
          /\ work.entry.type = RenamedType(old.type, op.new.ext)
          /\ work.entry.base = NormalBase[op.new.base]
          /\ old.type \in Bytes
        <3>1. old \in Entry
            BY <1>2, <2>4
        <3>2. work.entry = [old EXCEPT !.type = RenamedType(@, op.new.ext),
                                       !.base = NormalBase[op.new.base]]
            BY <2>1 DEF NamingFile
        <3> HIDE DEF old
        <3> QED
            BY <3>1, <3>2 DEF Entry
    <2>6. DirectoryEntryToWindowsName(work.entry) = StoredName[op.new]
        <3>1. (work.entry.type % 8) = ExtensionToFileType(op.new.ext)
            <4>1. (RenamedType(old.type, op.new.ext) % 8) = ExtensionToFileType(op.new.ext)
                BY <2>5, KindsKept
            <4> QED
                BY <2>5, <4>1, Zenon
        <3> QED
            BY <2>4, <2>5, <3>1, StoredUnder
    <2>7. CASE IsLive(work.entry)
        <3>1. Renames(Volume(before), Volume(image'), op.name, op.new)
            BY <1>1, <1>2, <2>3, <2>4, <2>5, <2>6, <2>7, NamingRenames
        <3> QED
            BY <2>4, <3>1 DEF VolumeMoves
    <2>8. CASE ~ IsLive(work.entry)
        <3>1. Drops(Volume(before), Volume(image'), op.name)
            BY <1>1, <1>2, <2>3, <2>4, <2>8, ClearingDrops
        <3> QED
            BY <2>4, <3>1 DEF VolumeMoves
    <2> QED
        BY <2>7, <2>8
<1>4. ASSUME ~ Renaming
      PROVE  /\ pc = "verify" /\ (Importing \/ Deleting)
             /\ image'.sec = image.sec /\ image'.dir = image.dir
             /\ image'.bam.free = image.bam.free
    <2>1. Importing \/ Deleting
        BY <1>1, <1>4 DEF Progress
    <2>2. VerifyAndCommit
        BY <2>1 DEF Importing, Deleting, CommitRename
    <2>3. pc = "verify"
        BY <2>2 DEF VerifyAndCommit
    <2> QED
        BY <2>1, <2>2, <2>3, VerifiedImage
<1>5. CASE Deleting
    <2>1. ~ Renaming
        BY <1>5 DEF Deleting, Renaming
    <2>2. op.name \in Targets /\ work.slot \in FindEntryByName(before, op.name)
        BY <1>1, <1>5 DEF Contents, DroppingFile, Deleting
    <2>3. /\ image'.sec = before.sec
          /\ image'.dir = [before.dir EXCEPT ![work.slot] = ClearedEntry]
        BY <1>4, <1>5, <2>1 DEF Deleting
    <2>4. ~ IsLive(ClearedEntry)
        BY DEF IsLive, ClearedEntry
    <2>5. Drops(Volume(before), Volume(image'), op.name)
        BY <1>1, <1>2, <2>2, <2>3, <2>4, ClearingDrops
    <2> QED
        BY <2>2, <2>5 DEF VolumeMoves
<1>6. CASE Importing
    <2> DEFINE A == work.alloc
               s == work.entry.start
    <2>1. ~ Renaming /\ StoringFile
        BY <1>1, <1>6 DEF Contents, Importing, Renaming
    <2>2. /\ op.name \in Targets /\ op.host \in HostFiles
          /\ FindEntryByName(before, op.name) = {}
          /\ work.entry = NewEntry(op.name, s)
          /\ Cardinality(A) = BlocksNeeded(op.host)
        BY <2>1 DEF StoringFile
    <2>3. /\ work.todo = {}
          /\ A \in SUBSET FileSectors /\ s \in A /\ \A t \in A : s =< t
          /\ \A t \in A : LinksOn(image'.sec[t].next, t, A)
          /\ image'.dir = [before.dir EXCEPT ![work.slot] = work.entry]
        BY <1>4, <1>6, <2>1 DEF Importing, Work
    <2>4. /\ \A t \in A : image'.sec[t].payload = <<op.host, Rank(t, A)>>
          /\ \A t \in FileSectors \ A : image'.sec[t].payload = before.sec[t].payload
        BY <1>4, <2>1, <2>3 DEF StoringFile
    <2>5. Pieces(image', s) = HostPieces(op.host)
        <3> HIDE DEF A, s
        <3> QED
            BY <1>2, <2>2, <2>3, <2>4, StoredPieces
    <2>6. Extended(image', before, work.slot, A)
        <3>1. Extended(image, before, work.slot, A)
            BY <1>4, <1>6, <2>1, ImportComplete
        <3>2. LiveSlots(image') = LiveSlots(image)
            BY <1>4, <2>1 DEF LiveSlots
        <3> QED
            BY <1>4, <2>1, <3>1, <3>2 DEF Extended
    <2>7. DirectoryEntryToWindowsName(work.entry) = StoredName[op.name]
        <3>1. /\ work.entry.base = NormalBase[op.name.base]
              /\ work.entry.type = 128 + ExtensionToFileType(op.name.ext)
            BY <2>2 DEF NewEntry
        <3>2. 0 \in Bytes
            BY DEF Bytes
        <3>3. (work.entry.type % 8) = ExtensionToFileType(op.name.ext)
            <4>1. ((128 + ExtensionToFileType(op.name.ext)) % 8)
                      = ExtensionToFileType(op.name.ext)
                BY <3>2, KindsKept
            <4> QED
                BY <3>1, <4>1
        <3> QED
            BY <2>2, <3>1, <3>3, StoredUnder
    <2>8. \/ Volume(image') = Volume(before)
          \/ Stores(Volume(before), Volume(image'), op.name, op.host)
        <3> DEFINE entry == work.entry
        <3>1. image'.dir = [before.dir EXCEPT ![work.slot] = entry]
              /\ DirectoryEntryToWindowsName(entry) = StoredName[op.name]
              /\ Pieces(image', entry.start) = HostPieces(op.host)
            BY <2>3, <2>5, <2>7
        <3> HIDE DEF A, s, entry
        <3> QED
            BY <1>1, <1>2, <2>2, <2>4, <2>6, <3>1, ImportStores
    <2> QED
        BY <2>2, <2>8 DEF VolumeMoves
<1> QED
    BY <1>1, <1>3, <1>5, <1>6 DEF Progress

\* The volume is of one image, whatever the step that evaluates it.
LEMMA VolumeOf ==
    ASSUME NEW img, Snapshot' = img
    PROVE  Volume(Snapshot)' = Volume(img)
    BY DEF Volume, FileIn, IsLive, DirectoryEntryToWindowsName, FileTypeToExtension,
           Pieces, ChainLength, Chain, ClosedFrom, Hop

\* No other step changes what the volume is read from.
LEMMA SnapshotKept ==
    ASSUME Faults \subseteq {"read"}, IInv, Progress, Calm, [Next]_vars,
           ~ (CommitRename \/ VerifyAndCommit)
    PROVE  Snapshot' = Snapshot
<1>1. /\ pc \in Busy => backup = before /\ backup # NoBackup
      /\ pc \notin Busy => backup = NoBackup
    BY EditorAssumption DEF Calm, IInv, TypeOK
<1>2. before \in Image /\ before # NoBackup /\ image # NoBackup
    BY EditorAssumption DEF IInv, TypeOK
<1>3. CASE Open \/ OpenFails
    <2>1. backup = NoBackup /\ backup' = NoBackup /\ image' = image
        BY <1>1, <1>3 DEF Open, OpenFails, Busy, Writing
    <2> QED
        BY <2>1 DEF Snapshot
<1>4. CASE Call
    <2>1. backup' = Snapshot /\ Snapshot = image /\ image' = image
        BY <1>1, <1>4 DEF Call, AddFile, DeleteFile, RenameFile, BeginTransaction,
           Snapshot, Busy, Writing
    <2> QED
        BY <1>2, <2>1 DEF Snapshot
<1>5. CASE WriteData \/ WriteEntry \/ SaveBam \/ VerifyFails
    <2>1. pc \in Busy /\ backup' = backup
        BY <1>5 DEF WriteData, WriteEntry, SaveBam, Proceed, VerifyFails, StartRollback,
           Busy, Writing
    <2> QED
        BY <1>1, <2>1 DEF Snapshot
<1>6. CASE Rollback
    <2>1. backup' = NoBackup /\ image' = backup /\ backup # NoBackup
        BY <1>1, <1>6 DEF Rollback, Busy
    <2> QED
        BY <2>1 DEF Snapshot
<1>7. ~ WriteFails /\ ~ RollbackFails /\ ~ Crash
    BY DEF WriteFails, RollbackFails, Crash, Calm
<1>8. CASE BeginFails \/ UNCHANGED vars
    <2>1. backup' = backup /\ image' = image
        BY <1>8 DEF BeginFails, vars
    <2> QED
        BY <2>1 DEF Snapshot
<1> QED
    BY <1>3, <1>4, <1>5, <1>6, <1>7, <1>8 DEF Next, Step

\* The abstract step.
LEMMA MovesAreAbstract ==
    ASSUME VolumeMoves(Volume(Snapshot), Volume(Snapshot)')
    PROVE  [Abstract!Next]_(Volume(Snapshot))
<1> DEFINE vol == Volume(Snapshot)
<1>1. CASE Volume(Snapshot)' = Volume(Snapshot)
    BY <1>1
<1>2. ASSUME Volume(Snapshot)' # Volume(Snapshot), NEW name \in Targets, NEW h \in HostFiles,
             Stores(vol, Volume(Snapshot)', name, h)
      PROVE  Abstract!AddFile(name, h)
    BY <1>2 DEF Stores, Holding, Abstract!AddFile, Abstract!Holders
<1>3. ASSUME Volume(Snapshot)' # Volume(Snapshot), NEW name \in Targets,
             Drops(vol, Volume(Snapshot)', name)
      PROVE  Abstract!DeleteFile(name)
    BY <1>3 DEF Drops, Holding, Abstract!DeleteFile, Abstract!Holders
<1>4. ASSUME Volume(Snapshot)' # Volume(Snapshot), NEW name \in Targets, NEW to \in Targets,
             Renames(vol, Volume(Snapshot)', name, to)
      PROVE  Abstract!RenameFile(name, to)
    BY <1>4 DEF Renames, Holding, Abstract!RenameFile, Abstract!Holders
<1> QED
    BY <1>1, <1>2, <1>3, <1>4 DEF VolumeMoves, Abstract!Next

LEMMA VolumeStep ==
    ASSUME Faults \subseteq {"read"}, IInv, Progress, Contents, Calm, [Next]_vars
    PROVE  [Abstract!Next]_(Volume(Snapshot))
<1>1. CASE CommitRename \/ VerifyAndCommit
    <2>1. /\ backup = before /\ before # NoBackup
          /\ backup' = NoBackup
        BY <1>1, EditorAssumption DEF Calm, IInv, TypeOK, Busy, Writing, CommitRename,
           VerifyAndCommit, CommitTransaction
    <2>2. Snapshot = before /\ Snapshot' = image'
        BY <2>1 DEF Snapshot
    <2>3. VolumeMoves(Volume(before), Volume(image'))
        BY <1>1, CommitMovesVolume DEF Calm
    <2>4. Volume(Snapshot)' = Volume(image')
        BY <2>2, VolumeOf
    <2>5. VolumeMoves(Volume(Snapshot), Volume(Snapshot)')
        BY <2>2, <2>3, <2>4
    <2> QED
        BY <2>5, MovesAreAbstract
<1>2. CASE ~ (CommitRename \/ VerifyAndCommit)
    <2>1. Snapshot' = Snapshot
        BY <1>2, SnapshotKept
    <2>2. Volume(Snapshot)' = Volume(Snapshot)
        BY <2>1, VolumeOf
    <2> QED
        BY <2>2
<1> QED
    BY <1>1, <1>2

\* On sound images, when nothing but reads can fail, the editor is a volume of
\* named files on which every import, deletion and renaming that succeeds happens
\* at once and touches no other file, and every one that fails does nothing: its
\* sector writes, its snapshot and its rollback are not to be seen.
THEOREM EditorIsAtomic ==
    ASSUME \A img \in InitialImages : Sound(img), Faults \subseteq {"read"}
    PROVE  Spec => ImplementsAtomicVolume
<1>1. Init => Calm /\ Contents /\ Abstract!Init
    <2>1. Init => Calm
        BY DEF Init, Calm, Busy, Writing
    <2>2. Init => Contents
        BY DEF Init, Contents, Writing
    <2>3. Abstract!Init
        BY DEF Abstract!Init
    <2> QED
        BY <2>1, <2>2, <2>3
<1>2. IInv /\ Progress /\ Contents /\ Calm /\ [Next]_vars
          => Contents' /\ Calm' /\ [Abstract!Next]_(Volume(Snapshot))
    BY ContentsStep, CalmStep, VolumeStep
<1> QED
    BY <1>1, <1>2, Always, PTL DEF Spec, ImplementsAtomicVolume, Abstract!Spec
=============================================================================
