# TLA+ models of jdrive64

jdrive64 reads, edits and mounts `.D64` disk images (Commodore 1541, 35
tracks). Modelled here are the image editor, the readers, the read-only front
ends with their caches, the two mount stacks (WinFsp and the kernel driver), the mount-state files, the telemetry
files with the query over them, and the conversions of names. TLC checks them on
small instances; TLAPS proves the safety properties and both refinements of abstract
specifications for every instance, with the exceptions section 6 names. `PROJECT.json` lists components, runs, mutants, hazards,
findings and theorems, and maps every definition to the source lines it models.

Check a run with `tlc -config EditorReliable.cfg MCD64ImageEditor` and a proof
with `tlapm KernelStackProofs.tla`.

## 1. The system

| Component (under `src/src`) | State it keeps | Operations | What makes it hard |
|---|---|---|---|
| Image editor, `d64_image_editor.cpp` | the image file, `writer_`, the snapshot of the active transaction | Open, AddFile, DeleteFile, RenameFile | many sector writes per operation; failure, rollback and kills between any two |
| Readers, `d64_reader.cpp`, `bam_reader.cpp`, `directory_reader.cpp`, `file_chain_reader.cpp` | the open stream | sector, BAM, directory and chain reads | where a sector lies; chains that loop or lead nowhere, count bytes |
| Session, catalog and caches, `disk_image_session.cpp`, `disk_catalog.cpp`, `sector_cache.cpp`, `file_cache.cpp` | open image, file list, two LRU caches | Open, reads by name and by entry, resizing | caches that outlive the image, keys in another spelling |
| WinFsp facade, `winfsp_filesystem.cpp` | mounted flag, mount point, session, handle table | mount, unmount, open, read, close, info, refused writes | handles and caches across remounts, status on every path |
| WinFsp stages, `winfsp_adapter.cpp`, `_callbacks`, `_native_bridge`, `_native_api`, `_runtime` | callback table, registration, DLL and FSP handles | start, stop, destruction | giving up at any stage and undoing the others |
| Kernel transport, `kernel_transport.cpp` | connection, negotiated capabilities, device handle | Connect, Disconnect, Send, modes and policies | handshake refusals, a driver that fails any call |
| Kernel bridge and file system, `kernel_user_bridge.cpp`, `kernel_readonly_fs.cpp` | session, handle table | Initialize, Dispatch | reconnection to another image |
| Channel, controller, mount manager, backends, `kernel_ipc_channel.cpp`, `kernel_backend.cpp`, `kernel_mount_manager.cpp`, `mount_backend.cpp` | installed, running, assigned letter, mounted | install, start, stop, remove, assign, mount, unmount | failure half-way through a mount |
| Mount-state files, `main.cpp` | one `.state` file per letter, its `.tmp` | mount, unmount, mounts and the `-mounted` commands | processes without a lock, kills, renames that fail |
| Telemetry sink, `kernel_telemetry_jsonl_sink.cpp`, settings in `mount_backend.cpp` | base file and numbered files | Emit with rotation; dump and clear by other processes | kills and failing renames between the files, two processes on one path, readers that race a rotation |
| PETSCII converter, `petscii_converter.cpp`; names in catalog, editor and `main.cpp` | none | byte to character and back | three spellings of one name that have to agree |
| Command line, `main.cpp` | none but the files above | extract; telemetry query: WHERE, tail, pages | name-keyed cache, precedence and escapes, wrapping sums |
| Listing, search and benchmark commands, scripts, tray | none that others read back | formatting and I/O | not modelled, see section 8 |

They interact by plain calls. A front end calls the session, which asks the
file cache, then the catalog, then reads the chain sector by sector through the
sector cache. The editor shares nothing with it but the image file, which other
programs may also write at any time. `KernelMountBackend` calls controller,
channel, transport and bridge in turn; `WinFspRuntime` calls the adapter, which
calls facade, callbacks and bridge. Separate processes meet only in the image
files, in the mount-state directory and in the telemetry files. The core library starts no thread of
its own and takes no lock, so everything within one object is sequential; what
is concurrent are processes, other programs that write images, and the driver.

What makes each component correct, and what could go wrong in it, line by
line, is the list `hazards` in `PROJECT.json`.

## 2. The modules

    D64Format ------ D64ImageEditor ------ D64ImageEditorProofs
                          |  implements
                     AtomicVolume
    DirectoryChain, D64Geometry -- MCReaders -- ReadersProofs
    LruCache -- ImageSession -- ImageSessionProofs
                               +-- MountedFilesystem --+-- MountedFilesystemProofs
                               +-- ExtractCommand -----+
                               +-- KernelFilesystem --+
                     KernelTransport -----------------+-- KernelStack -- KernelStackProofs
    WinFspLifecycle -- WinFspLifecycleProofs
    TelemetryLog, TelemetryPaging -- TelemetryProofs
        |  implements
    RetainedLog
    MountState, FileNames, WhereText, WhereParser -- CommandLineProofs

**D64Format** is the image as data: sectors with link and count bytes, the BAM
with its bits and its separate count bytes, directory entries. It holds the two
readings of the directory the program has: the editor's (`LiveSlots`,
`FindEntryByName`, `Chain`) and the read side's (`IsListed`,
`FindByWindowsName`, `ReadFails`, `FileData`). The editor's conversions are kept:
`NormalBase` is `NormalizeBaseName`, an unknown extension becomes PRG, `DEL`
becomes kind 0, and `CountByte` is taken modulo 256.

**D64ImageEditor** is the editor as a state machine. What an operation reads
before its first write is one step (`AddFile`, `DeleteFile`, `RenameFile`, each
with `BeginTransaction`). Then follows one step for each sector it writes, in
the code's order: the data sectors (`WriteData`), the directory sector
(`WriteEntry`), the BAM (`SaveBam`), the verified BAM (`VerifyAndCommit`); a
rename commits on its directory write. A write may fail, before or after it
reached the file (`WriteFails`), a verification may find a mismatch
(`VerifyFails`), a rollback may stop after any number of sectors
(`RollbackFails`), and the process may be killed anywhere (`Crash`). `writer` is
the error state of the stream: `WriteSector` clears it, and `RollbackTransaction`
opens the stream again without closing it when it is set, which fails; so the
only rollbacks that run are those of operations that had not failed on a write.

**DirectoryChain** looks below `D64Format`, in which the directory is a table of
slots: its sectors, with any links a damaged image may have, and the walks along
them, one sector a step. `DirectoryReader::Load` counts sectors (`Guard`, 64 in the
code) and does not remember them; `FindEntryByName`, `FindFreeDirectoryEntry` and
`ScanUsedSectorsFromDirectory` remember them. An operation is the sequence of
walks the editor makes for it, with the entry it writes in between.

**D64Geometry** is the arithmetic below that: `kTrackStart`, `SectorsPerTrack`,
`IsValid` and `TrackSectorToOffset` as reader and editor share them, and the
layout by addition with which the tests' generator writes images.

**AtomicVolume** says what the editor promises: a table of named files in which
one file at a time is added, deleted or renamed, in one step. It is instantiated
in `D64ImageEditor` with `volume <- Volume(Snapshot)`: the image when no transaction is
active, the snapshot while one is.

**LruCache** and **ImageSession** are operators on a session record, so that
all front ends use the same definitions. The two caches have one algorithm;
`Put`, `Touch`, `SetCapacity` are its operations. A read takes the image *as
the file is now*, and a cached sector may be older.

**MountedFilesystem** is `WinFspFilesystem`: every public method with all its
statuses, and `Replace`, another program writing an image file.

**KernelTransport**, **KernelFilesystem** and **KernelStack** are the kdrv
side. A client holds an object of one layer (`user`) and calls its methods:
transport, controller or mount backend. Each composed action is the whole call,
e.g. `MountReadOnly` sets the mode, installs, starts, assigns the letter, and
undoes what the code undoes at each failure. The driver is external: it opens,
answers a handshake with anything, and may fail any call (`DeviceFaults`).

**WinFspLifecycle** is the other mount stack: a runtime, or several adapters
sharing filesystems which their client also mounts and unmounts itself, with
WinFsp failing to load, to create, to set the mount point or to dispatch. A start
that fails takes back what it did with the calls the code makes for it: `Unmount`
with its comparison of spellings, `Shutdown`, `Delete`.

**MountState** is the state file of one letter under any number of processes
that mount, unmount and read. Opening, each buffered write, closing with
renaming, loading and removing are separate steps, with kills between them.
`posix` says whether an open file can be renamed over; both are checked. `overtaken` are
the processes in the middle of an unmount whose state another process has removed.

**TelemetryLog** is `KernelTelemetryJsonlSink::Emit`: one step appends the line, one
looks at the size, then two for each file of the rotation, removal and renaming,
from the last file down. Removals and renames may fail, the process may be killed
between any two steps, several processes may have one path, and dumps of other
processes look for the files, one a step, then read them, one a step, while
`telemetry-clear-mounted` truncates the base. **RetainedLog** is what this is for: a
bounded log that drops its oldest events, a batch at a time, only when full.

**WhereText**, **WhereParser** and **TelemetryPaging** are the query of
`telemetry-dump-mounted`. WhereText has tokenizer, literals, the normalized form and
the fields of a line, on sequences of characters that stand for all that mean the
same. WhereParser has the shunting-yard compiler, one token a step, the evaluator
of its output, and apart from both the grammar, as a recursive definition of what an
expression means. TelemetryPaging has tail, offset and limit in `size_t`
arithmetic, and a user who walks through the pages, a command each. A command collects
the files, reads them one by one and prints; between any two of these steps the
mounted process may emit lines, rotate its files and drop the oldest.

**FileNames** has all conversions of a name: `PetsciiToUtf8` with the catalog's
`SanitizeWindowsFilename`, `SanitizeFilename` of extract, and the editor's
`NormalizeBaseName` and `DirectoryEntryToWindowsName`, code by code.
**ExtractCommand** is `CmdExtract`, a loop over the same `ImageSession` as the mounts
have, onto a host that may refuse any file.

**MC** modules hold values for the constants. Two of them also put machines side by
side: **MCReaders** (`D64Geometry`, `DirectoryChain`) and **MCCommandLine**
(`TelemetryPaging`, `WhereText`, `WhereParser`, `FileNames`, `ExtractCommand`) check
small machines that share no state in one run each, by EXTENDS where theorems are
about them, so these name their parts apart (`WalkNext`, `ParserNext`, `NamesNext`), and
one as an instance (`D64Geometry`). Every initial state picks one by
the variable `machine`; the variables of the others rest, so their state spaces
add and do not multiply, and each property is that of its own machine. Operators commented
"Mutant:" are not part of a specification: each is a plausible mistake in the
definition below it, named in `PROJECT.json` with the property that catches it.

## 3. Properties and runs

Passing runs:

| Run | What it shows | Distinct states |
|---|---|---|
| `editor_reliable` | Reads may fail, writes succeed. Between operations chains end, their sectors are marked used and no two files share one (`SoundAtRest`); no space is lost (`SpaceAccounted`); every operation is atomic on the volume (`ImplementsAtomicVolume`); calls return (`CallsReturn`). | 44,188 |
| `editor_faults` | Reads, writes and rollbacks fail and the process is killed at any point. The snapshot is always the last committed image (`TransactionRestores`); a kill leaves a sound image except in one window of an import (`InterruptedSafely`); on whatever image all this has left, free counts that were right stay right with every single write (`CountsStayRight`), and until it is rolled back an operation changes no used sector, no entry but its own, and frees nothing off its own chain (`OthersUntouched`). | 807,767 |
| `mounted` | Reads and listings of an unchanging image are right whatever was evicted, resized, cached in another spelling or opened before a remount (`ReadsAreFaithful`, `ListingIsFaithful`); a handle names one file until it is closed, and the next one is not taken for it (`HandlesKeepTheirFile`). | 230,166 |
| `kernel` | The flags of all layers agree after every call (`LayersAgree`), device handles do not leak (`NoHandleLeak`), the driver gets no request it did not grant (`OnlyGranted`), open handles name files of the connected image (`OpenHandlesResolve`). | 204,618 |
| `winfsp` | The stages of a volume are set up together or not at all (`StagesAgree`), nothing is left behind in WinFsp (`VolumesAccountedFor`), a failed start takes back what it did to filesystem, callbacks and WinFsp, and disturbs no other adapter (`FailedStartUndone`), a running runtime can be stopped (`RuntimeAgrees`). | 14,160 |
| `readers` | Through the table of track starts a valid address reads what was last written there, or to its twin in one of the two pairs that have one place (`ReadsReturnLastWrite`). On every way to link three directory sectors: the reader loads what ends within its limit, each file once (`LoadIsRight`); an added file is listed, and what is listed can be deleted and renamed and stays as it is when another file is (`ReaderAndEditorAgree`); names stay unique and a broken directory is left alone, though "no such name" is told from a stuck look-up by an error text (`LookupsAreRight`); every call ends (`CallsEnd`). | 254,424 |
| `command_line` | A walk through the pages of a query prints no line twice while lines are emitted, and files rotated between its commands (`PagesGoForward`), and leaves none out when nothing happens (`PagesCover`). Every expression of up to nine tokens compiles to what the grammar says, and no beginning of one is refused (`ParsesTheGrammar`). For every text of up to six characters the normalized predicate reads back as the same value, every value can be quoted, and a detail ends where the sink ended it and decodes to what it was (`TextComesBack`). A name the editor stored is one name for catalog, extract and editor; extract and mount name every file alike, a Commodore's too (`NamesAgree`). A file with a name of its own is extracted whole whatever the files around it are like, and exit code 0 means all are out (`ExtractsWhole`). | 1,117,374 |
| `telemetry_quiet` | Without faults the files implement `RetainedLog` (`ImplementsRetainedLog`), an undisturbed dump prints all that is on disk (`DumpIsComplete`), Emit returns (`EmitReturns`). | 35,739 |
| `telemetry_faults` | Killed anywhere, with removals and renames that fail, one sink loses its oldest events only (`OnlyOldestLost`), and a dump that races it prints in order, nothing twice (`DumpGoesForward`). | 605,259 |
| `mount_one` | With one mounting process, kills and failed writes never show in the state file (`StateComplete`), and an unmount removes the state it loaded, unless the other one has removed that before (`RemovesWhatItRead`). | 1,521,330 |

Runs that find a counterexample, each a disagreement between the code and what
the repository says of it (quoted in `findings`):

| Run | Counterexample |
|---|---|
| `editor_rollback` | An import fails on a sector write. `RollbackTransaction` cannot open the stream that is still open, and the half-written image stays, although `README.md:250` promises a rollback on failure. |
| `kernel_stale` | The second mount of a backend lists the first image: the sector cache outlives it. `V1_RELEASE_CHECKLIST.md:15` excludes this. |

### Known disagreements

These were met while modelling, too. Each has a property that states what a test or a
document says, beside the model and in no run; the last column says how TLC shows it violated.

| Where | What happens | Property and how to check it |
|---|---|---|
| `d64_image_editor.cpp:130` | A host file of 254 bytes fills its block, its count byte wraps to 0, and the reader rejects what was imported with success (`test_write_editor.cpp:53` reads a 7-byte file back). | `AddedFileReadable`: `EditorReliable.cfg`, `Spec`, `Targets <- PlainNames`, `Faults = {}` |
| `d64_image_editor.cpp:61` | `MY GAME.PRG` is added twice: the look-up compares the caller's spelling with the stored, normalised one (`test_write_editor.cpp:110`: "add existing file must fail"). | `NamesUnique`: `EditorReliable.cfg`, `Spec`, `Faults = {}` |
| `d64_image_editor.cpp:272` | A file renamed to `.DEL` vanishes; its sectors stay marked used and no operation can free them. | `SpaceAccounted`: `EditorReliable.cfg`, `Spec`, `Targets <- DelNames`, `Faults = {}` |
| `d64_reader.cpp:36` | `kTrackStart` has wrong starts from track 25 on: another sector is read than the tests' generator (`d64_test_utils.cpp:97`), or a 1541, stored there. | `CorpusIsRead` of `D64Geometry` under `CorpusSpec`, with `Places` on both sides of track 25 |
| `main.cpp:1373` | Of two listed files of one name extract writes the first one's bytes twice; the mount reads the last. | `ExtractsAsMounted`, in `CommandLine.cfg` |
| `main.cpp:1427` | Two mounts of a letter both find no state file and both succeed (`test_cli_smoke.cpp:150`: "mount fails when already mounted"). | `MountExclusive` of `MountState`: `Mounters = Procs = {"m", "n"}`, no others, `Faults = {}` |
| `main.cpp:1058` | A kill between two renames leaves a number free, and dumps stop there (`ROADMAP_EXECUTABLE.md:1530`). | `DumpIsComplete`: `TelemetryFaults.cfg` with `Faults = {"kill"}` |
| `main.cpp:1051` | More files can be configured than the commands look for. | `DumpIsComplete`: `TelemetryQuiet.cfg` with `MaxFilesSetting = 3` |
| `mount_backend.cpp:68` | `-1` is a valid number for `std::stoul`, so the default is not restored (`ROADMAP_EXECUTABLE.md:1540`). | `InvalidFallsBack` of `TelemetryLog`: `MaxFilesSetting` defined as -1 |
| `main.cpp:1566` | Two processes unmount a letter; the first removes the state, a mount writes a new one, and the second removes that, although it has read and reported the old one. | `RemovesWhatItRead` of `MountState` without its `p \notin overtaken`: `MountOne.cfg` |
| `main.cpp:1092` | A detail with a quote, a backslash, a line break or a tab is compared while still escaped (`\"`, `\\`, `\n`, `\t`), and does not contain itself; in a WHERE literal `\n` stays a backslash and an n (`main.cpp:543`). | `DetailIsFound` of `WhereText`, under `TextSpec`: `MaxTyped = 3` |
| `main.cpp:1856` | A rotation comes while a command reads: `.1` is read where there is `.2` by then, its lines are hidden from this command, and the next page prints lines a second time. | `PagesGoForward` of `TelemetryPaging` without its `~ shaken`: `CommandLine.cfg` |
| `d64_image_editor.cpp:505` | A file that a Commodore named with a space or an exclamation mark is listed by that name, but the editor knows it by another, with `_`: it cannot be deleted or renamed as listed. | `ListedIsFound` of `FileNames`, under `NamesSpec`: `CommandLine.cfg` |
| `main.cpp:1886` | The largest `--limit` at an offset wraps, and the page is empty. | `PagesCover` of `TelemetryPaging`: `SizeWidth = 16`, `Limits = {15}`, `Offsets = {1}` |

The passing runs cannot contain these cases, so `editor_reliable` uses the aliased
names and not `DEL`, `editor_faults` plain ones: `SpaceAccounted` is what holds but for
`DEL`, and `ImplementsAtomicVolume` has the second `MY_GAME` as the only thing an add
may do beyond a new name. `ReadsReturnLastWrite` names its two pairs.
`ReadsAreFaithful` and `ListingIsFaithful` speak of objects that have read from
one image only (`seen`), which is the weakest condition under which the caches
are right; `kernel_stale` shows what happens without it. `DumpIsComplete` is
checked without faults and with as many files as the commands look for.

`InterruptedSafely` states its window: an import whose directory entry is on
disk and whose BAM is not, or that is being rolled back, leaves a listed file on
sectors called free. DeleteFile has no such window, for it clears the entry first.

What `InterruptedSafely` promises is for one interruption, on a sound image. After an import
that was interrupted in its window the next import finds its sectors free, and two listed files share a
chain. And two interruptions make a loop: a file on 2→1 is deleted; an import is killed when it has
written 1→2; the next one writes 1→2, 2→0 and its verification fails; its rollback stops
after two sectors, and what its entry lists is 1→2→1. `editor_faults` contains both (`ChainsDisjoint`
and `ChainsEnd` fail in it); its two properties about any image, `CountsStayRight` and
`OthersUntouched`, hold there too.

`RemovesWhatItRead` and `PagesGoForward` name the case in which they fail (`overtaken`,
`shaken`), and nothing in the code prevents it: no lock on the state file, none on the telemetry files.
`FailedStartUndone` does not speak of the session. A start mounts the filesystem on the new image
and unmounts it when it gives up; the session stays open on that image, as after any unmount.

## 4. Bounds, and why they are enough

* Editor: four file sectors on two tracks (three with faults), two slots, three host files of
  one or two blocks (one with faults), at most four names. Two files, a chain of two, a full disk and
  a full directory occur, a free sector lies before and after a used one, and a
  freed sector is allocated again. The initial images are a blank one, one with wrong
  counts (as the test corpus makes them) and one written by a Commodore, whose
  file name is not one the editor would store and whose chain runs downwards. With faults
  that file can be deleted and its sectors are written again in the other direction, so images
  with loops and shared sectors occur, and operations start from them.
* Session: two data sectors, three images (chains of two, a bad sector, a loop,
  an empty file, two files of one name), sector cache of 1 or 4, file cache
  of 1 or 3, item limits of 1 and 9; one path that other programs overwrite. Two handles, so
  that one is opened after the other was closed, or beside it.
* Kernel: two images, two driver handles, two letters, one bad and one empty.
  Two handles let one be stuck at the driver while another connects.
* WinFsp: two adapters, two filesystems, three spellings of two points, three
  file system objects (one more than can be in use).
* Mount state: one mounting, two unmounting (symmetric) and one listing process; states of
  one and two writes, so that a longer file is replaced by a shorter one and back.
* Directory: three sectors of one entry each and a limit of two for the reader: every
  chain, loop, and early or bad end, chains one longer than the limit, four kinds of
  entries (free, DEL, open and closed PRG), two names, every call. Sectors that no link leads to
  are never read and hold one value.
* Geometry: the borders of the zones and both pairs, invalid addresses beside each; the
  arithmetic itself is not cut down, and the proof is for all 683 sectors.
* Telemetry: a chain of three files of two lines and nine events, so that it is full and
  drops twice, and a rotation that finds every combination of missing files; one sink, one dump.
  `Width` is 8 instead of 2^32 or 2^64: it matters only
  for a setting that is negative.
* WHERE: nine tokens allow two nested groups with operators; two predicates tell all
  operators apart. Six characters of six kinds (plain, quote, backslash, space, line break,
  parenthesis) allow an escaped quote inside quotes with text around it.
* Paging: five lines in three files, so that a rotation moves, keeps and drops files; tails, limits
  and offsets below, at and above the lines. Offset and limit add up to 15 at most, below the width of
  16: the wrap of `main.cpp:1886` does not occur in the run and is shown apart (above).
* Names: entries of three bytes, texts one longer, and a character of each kind the code treats alike.
* Extract: seven images, three combinations of cache sizes, four names; the host refuses any file.
* `MaxHandles` (handles ever opened by one object) and `Handles` are bounds of
  the models and not of the code, whose counters are 64 bits wide.

## 5. Fairness

`FairSpec` of the editor assumes `WF_vars(Step)`, the continuation of an operation
that was called; `FairSpec` of TelemetryLog `WF_vars(RotationStep(s))` for each
sink, and `Spec` of DirectoryChain `WF_vars(Next)`, where all of `Next` is one call. The
code justifies each: a call runs on its caller's thread to its end and waits for
nobody (the sink's mutex is held by the call itself). Calls themselves, opening,
kills and faults are never fair. All other specifications are safety only.

## 6. What is proved

All proofs are for every value of the constants under the named assumptions of
the modules, without bounds.

* `D64ImageEditorProofs`: `TypeCorrect`, and `RollbackRestoresCommitted`, that the
  snapshot of an active transaction is the last committed image under every
  combination of faults. `TransactionRestores` is not inductive: a commit drops
  the snapshot and a rollback puts it back, so one must know that an operation
  in progress has one, and local variables of the right shape. `IInv` is
  `TypeOK /\ InProgress /\ TransactionRestores`; the typing part has a lemma for
  each kind of write, which is where bytes could leave 0..255.
  The rest of the module is about what the editor's chains do. `Progress` is the
  invariant: while an operation is busy, image and BAM are related, stage by stage
  (`Importing`, `Deleting`, `Renaming`), to `before`, the image it began with. A chain
  is the least set of sectors closed under links, so it can be reasoned about
  without induction over its length: `ReducedIsSound`, `ExtendedIsSound` and
  `LinkedChainIsAll` say what taking a file away or putting one in does to all other chains.
  From it follow `InterruptsAreSafe` (`InterruptedSafely`) and `OperationsTouchTheirOwn`
  (`OthersUntouched`) under any faults and on any images, those with loops included: `UsedKept` says that
  the sectors an import allocates were free in `before`, and that a deletion frees the chain
  it scanned. `CountsAndBitsAgree` (`CountsStayRight`) needs that every track has fewer than 256 file
  sectors, for the count is a byte; then a count that equals the number of free bits
  is never 0 or 255 where `MarkSectorUsed` or `MarkSectorFree` would stop or wrap. `SoundBetweenOperations` (`SoundAtRest`) if the
  initial images are sound and nothing but reads fails; `NoSpaceIsLost`
  (`SpaceAccounted`) if they also have no lost sectors and no caller names a file x.DEL.
  `EditorIsAtomic` is the refinement of `AtomicVolume` (`ImplementsAtomicVolume`), if the initial
  images are sound and nothing but reads fails. An abstract file is the list of
  what its sectors hold, in the order of the chain; a chain has an order because its
  sectors have a distance from the start (`HopsExist`), and images that agree on a chain
  have the same list for it (`SamePieces`). `Contents` says how the directory of an operation in
  progress differs from `before`: in one slot, cleared, renamed, or holding the
  sectors allocated so far with the pieces written so far. Since the volume is that of the
  snapshot while a transaction is active, all steps but the two that commit stutter.
* `KernelStackProofs`: `HandlesAccountedFor` (`NoHandleLeak`), `RequestsAreGranted`
  (`OnlyGranted`), `LayersStayTogether` (`LayersAgree`). The invariant adds
  `LinkAsGranted`, that a link that is up has the capabilities and features of the
  handshake it was accepted with, without which a request allowed by the link
  could not be traced to the driver's grant. Each transport operation
  has one lemma, which the calls of all three clients cite. `HandlesResolve`
  (`OpenHandlesResolve`) needs that a read changes nothing of a session but its caches.
  `TypeCorrect` adds `TransportTypes` and `FilesystemInvariant`, that the kernel file system's session
  is well formed whatever images it has been mounted on.
* `WinFspLifecycleProofs`: `StagesStayTogether`, `NoVolumeLeaks`,
  `FailedStartsUndone`, `RuntimeStaysTrue` (`RuntimeAgrees`) and `TypesAreKept`, for any
  number of adapters, filesystems and WinFsp objects. The stages are inductive only
  together with `VolumesAccountedFor`: clearing an adapter deletes its own object
  because no other has it. For `FailedStartsUndone` it has to be shown that the `Unmount` of the
  undo, which compares spellings, recognises the point the same start has mounted, and that
  the object it deletes is no other adapter's.
* `CommandLineProofs`, the mount states: `WholeStates` (`StateComplete`) and `WholeReads`
  (`ReadersSeeWholeStates`), for any processes, images and numbers of
  chunks, under `OneMounter` (one mounting process, no unnoticed flush failure).
  `WellPlaced` is the strengthening: the file being written is the one named
  `tmp`, is not the one named `state`, and holds a prefix of the state being written; a file
  that someone reads under the name `state` is never written again. `TypesAreKept` needs no assumption.
  `RemovesItsOwn` (`RemovesWhatItRead`) needs `SingleMounter`, one mounting process and any number
  that unmount: until it is overtaken, a state that an unmount has opened stays in its place
  (`InPlace`), because mounting begins only where there is no state.
  The names: `NamesAreOne` (`NamesAgree`), for entries of any length, any set of characters below
  256 and any name of the nameless. `NamesInv` says that the bytes of an entry are padded text
  whoever wrote them; padding is what each of the three conversions cuts off
  (`PaddingIsCut`). On what is left catalog and extract agree character by character, and the editor
  with them on the characters it writes itself.
  The text: `TextAlwaysComesBack` (`TextComesBack`), for texts of any length. Each loop over
  characters is a fold, and a fold is a recursive function whose existence has to be
  proved (`RunExists`) before anything can be said of its value. `LoopNext`, that a loop over one
  more character is one more step, is then all that is needed. Facts about texts of
  any length are proved by induction with a set for the claim (`AllSequences`), from the
  least-number principle. `EscapedIsClosed` is the heart of it: in an escaped text every
  quote has an odd number of backslashes before it, and an even number ends the text;
  `EscapedIsDecoded` says that a JSON parser reads it as it was.
  The WHERE compiler: `TheGrammarIsParsed` (`ParsesTheGrammar`), for expressions of any
  length over any predicates. The grammar is a recursive function over the spans of a text.
  The postfix output means nothing to it, so the invariant `ParserInv` says for every text
  that begins with the tokens read how they are laid out (`LaidOut`): entry i of the
  stack is the token at place `at[i]`, between two entries lies what the grammar
  gives one set of lines (`Operand`), and running the output for any line leaves one answer for each
  of those sets (`Leaves`). `Ladder` adds why an operator may wait below another: what is
  above binds tighter, or as tight and is NOT (`Binds`). Popping an operator joins two operands
  to one that the grammar reads the same way, because no operator outside the groups of
  either binds looser than the one that joins them (`OperandBinary`); this is where precedence
  and left-to-right order are needed. For what is refused, `MeaningIsFormed` says of all the grammar
  accepts which token may follow which, and that no group is closed before it is opened.
* `ReadersProofs`, the geometry: `OnlyTwinsShareAPlace`, for all pairs of addresses, from the table
  being linear in each of its four zones; from it `SectorsKeepTheirData` and
  `ReadsAreRight`, for any set of sectors in use and any payload.
  The directory, for any number of sectors and any links: `LookupsStayRight`
  (`LookupsAreRight`), `EditorAgreesWithReader` (`ReaderAndEditorAgree`) and `LoadStaysRight`
  (`LoadIsRight`). A chain is the least set closed under links. Whatever a walk has
  visited lies in it and is closed but for the place it goes to next, so a walk that
  ends has visited all of it, and one that meets a visited sector has found a chain
  without end (`WalkInv`). `Load` only counts: until it comes back to a sector
  it has read every one once, so it has read as many as there are,
  and afterwards it reads nothing new and never ends before its limit (`LoadInv`).
* `ImageSessionProofs` has no theorem of a specification: it says what the caches and the session
  do, and the proofs about facade, kernel file system and extract cite it. The two
  caches are one algorithm and have one set of lemmas: what `Put`, `Touch` and
  `SetCapacity` keep, and that a bound is never passed. `Well(s, I, F)` says that a session
  has read its sectors from the images `I`, and that what its file cache holds is in
  `F`, which each front end chooses; a chain is read by unfolding `ReadChain` at the
  sector read next.
* `MountedFilesystemProofs`: `TypeCorrect`, `ReadsStayFaithful`, `ListingStaysFaithful` and
  `HandlesStay` (`HandlesKeepTheirFile`), for any images, cache settings, item limits and
  spellings, while other programs write the image files at any time. The file cache holds
  files of the images seen. With more than one image seen all that follows is that the bytes
  came from one of them, and with one image it is `ReadsAreFaithful`. `HandlesListed` is needed since a
  handle survives remounts and is looked up again when it is read.
  The second half is extract. Its file cache is keyed by name and so mixes the files
  of one name up, but holds no others (`OwnFile`); hence what is written under a name is what some
  file of that name holds, and the right one if the name is its own (`Extracted`). `OneFileSpoilsNoOther`
  (`NoFileSpoilsAnother`) holds under all faults of the host, `ExtractsWell` (`ExtractsWhole`) if no
  stream fails in its destructor.
* `TelemetryProofs`, the log: `TypeCorrect`, `ChainStaysOrdered` (`ChainOrdered`, higher numbers hold
  older events) and `DumpsGoForward` (`DumpGoesForward`) for any number of files, sinks and
  readers and all faults; that two sinks keep the order is shown by these proofs alone. `OneSinkLosesOldest`
  (`OnlyOldestLost`) for one sink. It needs that the files below a rotation's number are
  the ones it has not moved yet (`VacantBelow`) and that the newest event is in the base until a
  rotation moves it (`NewestInBase`). With two sinks it is false: TLC finds a
  rotation that removes a file the other one has just moved.
  `QuietDumpsAreComplete` (`DumpIsComplete`) for one sink without kills and failing renames and as
  many files as the commands look for: then the numbers in use between two
  rotations have no gap, and so a dump that counts them up to the first free one has
  counted all. `FilesAreARetainedLog` is the refinement `ImplementsRetainedLog`, for one sink whose
  removals may fail: the append, and the removal or overwriting of the last file, are the
  abstract steps, all others stutter; `FullFiles` says why what is dropped is a whole batch.
  The pages: `NoLineTwice` (`PagesGoForward`) for all options and widths and any number of
  files. `PartsInOrder` says that the files hold the lines in order and without a gap,
  `ReadSoFar` that, as long as none moves, what a command has read is all from the oldest line on
  disk up to the next file, and `PrintedBefore` that what the walk has printed is older than
  its next page: the oldest line only grows, so the same offset never means an older line.
  `NoLineLeftOut` (`PagesCover`) if number of lines and limit do not add up to the width.

Only model-checked:

* Liveness (`CallsReturn`, `CallsEnd`, `EmitReturns`), which is out of the proof system's reach.

The type invariants of the editor, the telemetry log, the WinFsp stages
and the mount states are proved and in no run; so is `ReadersSeeWholeStates`.

## 7. Abstractions to know about

* A sector write is atomic. One that is reported as failed reached the file at
  once or never; bytes that the C++ library still buffers after a failed
  flush, and writes at a later seek, are not modelled.
* One editor works on an image. In `D64ImageEditor` track and sector arithmetic is
  abstracted to file sectors in scan order (it is `D64Geometry`'s subject); the
  directory's chain of sectors (`DirectoryChain`'s) is flattened into slots, and a slot is written alone although the code writes its sector back whole.
* Editor and reader both take an entry's type from byte 4 of its 32, its start
  from bytes 5 and 6, and see seven entries in a sector; a 1541 stores them two
  bytes earlier, in eight. Both agree with each other and with the test corpus; the
  layout of an entry is abstracted.
* Messages, statistics, hit counters and telemetry text are left out. Statuses
  are kept where a caller can act on them.
* The facade is used by one thread. Whether WinFsp's dispatcher would ever call
  into it cannot be told from this code, which hands WinFsp the filesystem
  object where a table of callbacks is expected.
* In `MountState` a backend is gone with its process, and each letter has files of
  its own, so one letter is modelled. The `flush` fault, a write that fails
  unnoticed as the stream is closed, breaks `StateComplete`; it is in the model and
  not in the passing run. The same fault is in `ExtractCommand`, and there breaks `ExitCodeTells`.
* In `TelemetryLog` a line is one event and the size of a file is its number of lines; a rename
  replaces a file that a failed removal left, and reading one file is one step. Dumps do not hold
  files open, except that a rename may fail at any time.
* `TelemetryPaging` numbers the lines that match the query, and what a command has read is a set:
  that it reads them in order and none twice is `TelemetryLog`'s `DumpGoesForward`. Reading one
  file is one step, and so is a rotation, whose own steps are `TelemetryLog`'s; a file is found where
  it had been collected, under a number that may hold other lines by then.
* A sector with a bad link or a bad count byte is read and cached like any other and refused by the
  chain reader (`Link(Unreadable, d)` in `ImageSession`); which of the two it is makes no difference.

## 8. Not modelled, and the plan

Not modelled:

* `ls`, `info`, `search` and `bench`, the table layout and the argument parsing of
  `main.cpp`: they format what the readers return and keep nothing. The JSON report of a
  query (its plan, profile and page fields) repeats values of `TelemetryPaging` and
  `WhereParser` in text; which fields exist is wording.
* The filters of a query beside WHERE (`--event`, `--since` and so on) are conjunctions over one line.
* Statistics of caches and transport, and `stats`: counters that decide nothing.
* `GetVolumeInfo`'s arithmetic and the disk's name and id in the BAM: values of one read.
* Scripts and the tray application, which call the command line.
* The frame layout of the driver protocol, and providers injected with `SetApi`.
* Two editors on one image: the code has no rule for them (no lock, no check that the
  image is still the one opened), so there is no property to state; the hazard is listed.

Modules were written in order of weight: editor, session with facade, kernel
stack, mount state, WinFsp stages; then geometry, telemetry files, WHERE and
paging, names, extract, the directory's sectors. What could follow:

1. A refinement of `D64Format`'s slots by `DirectoryChain`'s sectors.
2. The frame layout of the driver protocol, where a device lists a directory.
