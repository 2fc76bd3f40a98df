---------------------------- MODULE TelemetryLog ----------------------------
(***************************************************************************)
(* The telemetry files: KernelTelemetryJsonlSink appends one line for each *)
(* event to the base file and, once that is large enough, moves the chain  *)
(* of files up by one, file after file; the telemetry commands of other    *)
(* processes look which files exist, then read them from the last to the   *)
(* base, or truncate the base.                                             *)
(*                                                                         *)
(* File 0 is the base, file i the one with ".i" after its name.  Events    *)
(* are numbered in the order of their appends; a file is the set of its    *)
(* events, which lie in it in this order.  A line counts as one byte.      *)
(* Appending a line is one step, and so is reading one file; looking       *)
(* whether a file exists and renaming it are one step of the sink.         *)
(***************************************************************************)
EXTENDS Integers, FiniteSets

CONSTANTS
    Sinks,            \* processes that emit into this path
    Readers,          \* processes that dump it
    MaxFilesSetting,  \* JDRIVE64_TELEMETRY_MAX_FILES: a number, or NotANumber
    MaxBytesSetting,  \* JDRIVE64_TELEMETRY_MAX_BYTES
    NotANumber,       \* a text that stoul and stoull reject
    Width,            \* one more than the largest size_t
    DefaultFiles, DefaultBytes,
    ReaderFiles,      \* how many rotated files the commands look for
    MaxEvents,        \* bound: events emitted
    Faults            \* which of "remove", "rename", "kill", "clear" occur

\* The settings: stoul takes a minus sign and returns the value modulo Width;
\* zero and what it rejects stand for the default.
Parsed(setting, default) ==
    IF setting = NotANumber \/ setting >= Width \/ setting =< -Width \/ setting = 0
    THEN default
    ELSE setting % Width

MaxFiles == Parsed(MaxFilesSetting, DefaultFiles)
MaxBytes == Parsed(MaxBytesSetting, DefaultBytes)

ASSUME TelemetryAssumption ==
    /\ MaxFilesSetting \in Int \cup {NotANumber}
    /\ MaxBytesSetting \in Int \cup {NotANumber}
    /\ Width \in Nat \ {0}
    /\ NotANumber \notin Int
    /\ DefaultFiles \in Nat \ {0} /\ DefaultBytes \in Nat \ {0}
    /\ ReaderFiles \in Nat /\ MaxEvents \in Nat
    /\ Faults \subseteq {"remove", "rename", "kill", "clear"}

Files == 0..MaxFiles
Events == Nat \ {0}

VARIABLES
    exists,    \* the files there are
    lines,     \* the events in each file
    emitted,   \* how many events were appended
    sink, at,  \* where each sink is in Emit, and the i of its rotation loop
    dump,      \* each reader's collected files, and what it has printed
    cleared,   \* history: the events telemetry-clear-mounted dropped
    calm       \* history: since a reader's dump began no file changed

vars == <<exists, lines, emitted, sink, at, dump, cleared, calm>>

NewDump == [phase |-> "none", base |-> {}, found |-> 0, next |-> 0, printed |-> {}]
Dump == [phase : {"none", "collect", "read", "done"}, base : SUBSET {0},
         found : Files, next : Files, printed : SUBSET Events]

Init ==
    /\ exists = {}
    /\ lines = [i \in Files |-> {}]
    /\ emitted = 0
    /\ sink = [s \in Sinks |-> "idle"]
    /\ at = [s \in Sinks |-> 0]
    /\ dump = [r \in Readers |-> NewDump]
    /\ cleared = {}
    /\ calm = [r \in Readers |-> FALSE]

Disturb == calm' = [r \in Readers |-> FALSE]

-----------------------------------------------------------------------------
(* Emit.                                                                   *)

Goto(s, where, i) ==
    /\ sink' = [sink EXCEPT ![s] = where]
    /\ at' = [at EXCEPT ![s] = i]

\* The line is written and the file closed.
AppendLine(s) ==
    /\ sink[s] = "idle"
    /\ emitted < MaxEvents
    /\ emitted' = emitted + 1
    /\ exists' = exists \cup {0}
    /\ lines' = [lines EXCEPT ![0] = @ \cup {emitted'}]
    /\ Goto(s, "check", 0)
    /\ Disturb
    /\ UNCHANGED <<dump, cleared>>

\* Mutant: only a file larger than the setting is rotated.
RotateLate == 0 \in exists /\ Cardinality(lines[0]) > MaxBytes

\* RotateIfNeeded: the size of the base file, if it is there.
MustRotate == 0 \in exists /\ Cardinality(lines[0]) >= MaxBytes

Check(s) ==
    /\ sink[s] = "check"
    /\ IF MustRotate THEN Goto(s, "remove", MaxFiles) ELSE Goto(s, "idle", 0)
    /\ UNCHANGED <<exists, lines, emitted, dump, cleared, calm>>

\* The file with the loop's number is removed; an error is ignored.
Remove(s) ==
    /\ sink[s] = "remove"
    /\ \/ /\ exists' = exists \ {at[s]}
          /\ lines' = [lines EXCEPT ![at[s]] = {}]
       \/ "remove" \in Faults /\ UNCHANGED <<exists, lines>>
    /\ Goto(s, "shift", at[s])
    /\ Disturb
    /\ UNCHANGED <<emitted, dump, cleared>>

\* Mutant: the loop's number is not decremented.
NextFileStuck(s) ==
    IF at[s] = 1 THEN Goto(s, "idle", 0) ELSE Goto(s, "remove", at[s])

NextFile(s) ==
    IF at[s] = 1 THEN Goto(s, "idle", 0) ELSE Goto(s, "remove", at[s] - 1)

MovedUp(i) == [lines EXCEPT ![i] = lines[i - 1], ![i - 1] = {}]

\* The file before it takes its name, in the place of a file left there.
Shift(s) ==
    /\ sink[s] = "shift"
    /\ at[s] - 1 \in exists
    /\ exists' = (exists \ {at[s] - 1}) \cup {at[s]}
    /\ lines' = MovedUp(at[s])
    /\ NextFile(s)
    /\ Disturb
    /\ UNCHANGED <<emitted, dump, cleared>>

Skip(s) ==
    /\ sink[s] = "shift"
    /\ at[s] - 1 \notin exists
    /\ NextFile(s)
    /\ UNCHANGED <<exists, lines, emitted, dump, cleared, calm>>

\* Mutant: the rotation goes on after a rename that failed.
ShiftGoesOn(s) ==
    /\ "rename" \in Faults
    /\ sink[s] = "shift"
    /\ at[s] - 1 \in exists
    /\ NextFile(s)
    /\ UNCHANGED <<exists, lines, emitted, dump, cleared, calm>>

\* A rename fails, as on Windows while a reader has the file open.
ShiftFails(s) ==
    /\ "rename" \in Faults
    /\ sink[s] = "shift"
    /\ at[s] - 1 \in exists
    /\ Goto(s, "idle", 0)
    /\ UNCHANGED <<exists, lines, emitted, dump, cleared, calm>>

Kill(s) ==
    /\ "kill" \in Faults
    /\ sink[s] # "idle"
    /\ Goto(s, "idle", 0)
    /\ UNCHANGED <<exists, lines, emitted, dump, cleared, calm>>

RotationStep(s) == Check(s) \/ Remove(s) \/ Shift(s) \/ Skip(s) \/ ShiftFails(s)

-----------------------------------------------------------------------------
(* telemetry-clear-mounted, and the commands that read the files.          *)

\* A clear that comes in the middle of an Emit counts as a fault.
Clear ==
    /\ "clear" \in Faults \/ \A s \in Sinks : sink[s] = "idle"
    /\ exists' = exists \cup {0}
    /\ lines' = [lines EXCEPT ![0] = {}]
    /\ cleared' = cleared \cup lines[0]
    /\ Disturb
    /\ UNCHANGED <<emitted, sink, at, dump>>

\* CollectTelemetryFiles asks for the base first, then for one file after
\* the other until one is missing.
StartDump(r) ==
    /\ dump[r].phase \in {"none", "done"}
    /\ dump' = [dump EXCEPT ![r] =
                  [phase |-> "collect", base |-> {0} \cap exists,
                   found |-> 0, next |-> 0, printed |-> {}]]
    /\ calm' = [calm EXCEPT ![r] = \A s \in Sinks : sink[s] = "idle"]
    /\ UNCHANGED <<exists, lines, emitted, sink, at, cleared>>

Found(d) == [d EXCEPT !.found = @ + 1]

Reading(d) ==
    [phase |-> "read", base |-> d.base, found |-> d.found, next |-> d.found,
     printed |-> d.printed]

\* Mutant: one file too few is looked for.
CollectFewer(r) ==
    /\ dump[r].phase = "collect"
    /\ dump' = [dump EXCEPT ![r] =
                  IF @.found + 1 < ReaderFiles /\ @.found + 1 \in exists
                  THEN Found(@) ELSE Reading(@)]
    /\ UNCHANGED <<exists, lines, emitted, sink, at, cleared, calm>>

Collect(r) ==
    /\ dump[r].phase = "collect"
    /\ dump' = [dump EXCEPT ![r] =
                  IF @.found < ReaderFiles /\ @.found + 1 \in exists
                  THEN Found(@) ELSE Reading(@)]
    /\ UNCHANGED <<exists, lines, emitted, sink, at, cleared, calm>>

\* Mutant: the files are read from the base on.
NewLinesUpwards(d) ==
    IF d.next = d.found /\ d.base = {} THEN {} ELSE lines[d.found - d.next]

\* The file d.next is read; one that is gone is skipped.
NewLines(d) == IF d.next = 0 /\ d.base = {} THEN {} ELSE lines[d.next]

AfterRead(d, new) ==
    [phase |-> IF d.next = 0 THEN "done" ELSE "read", base |-> d.base,
     found |-> d.found, next |-> IF d.next = 0 THEN 0 ELSE d.next - 1,
     printed |-> d.printed \cup new]

\* The files are read from the last to the first.
ReadFile(r) ==
    /\ dump[r].phase = "read"
    /\ dump' = [dump EXCEPT ![r] = AfterRead(@, NewLines(@))]
    /\ UNCHANGED <<exists, lines, emitted, sink, at, cleared, calm>>

Next ==
    \/ \E s \in Sinks : AppendLine(s) \/ RotationStep(s) \/ Kill(s)
    \/ Clear
    \/ \E r \in Readers : StartDump(r) \/ Collect(r) \/ ReadFile(r)

Spec == Init /\ [][Next]_vars

\* Emit is one call: once begun it is not left waiting.
FairSpec == Spec /\ \A s \in Sinks : WF_vars(RotationStep(s))

-----------------------------------------------------------------------------
FilesOK ==
    /\ exists \subseteq Files
    /\ lines \in [Files -> SUBSET Events]
    /\ \A i \in Files \ exists : lines[i] = {}
    /\ \A i \in Files : \A x \in lines[i] : x =< emitted
    /\ emitted \in Nat

SinksOK ==
    /\ sink \in [Sinks -> {"idle", "check", "remove", "shift"}]
    /\ at \in [Sinks -> Files]
    /\ \A s \in Sinks : sink[s] \in {"remove", "shift"} => at[s] # 0

DumpsOK ==
    /\ dump \in [Readers -> Dump]
    /\ \A r \in Readers : \A x \in dump[r].printed : x =< emitted
    /\ \A r \in Readers : dump[r].phase = "collect" => dump[r].printed = {}

TypeOK ==
    /\ FilesOK /\ SinksOK /\ DumpsOK
    /\ cleared \subseteq Events
    /\ calm \in [Readers -> BOOLEAN]

OnDisk == UNION {lines[i] : i \in Files}

\* A file with a higher number holds older events than one with a lower, with
\* any number of sinks rotating at once, kills and renames that fail.
ChainOrdered ==
    \A i, j \in Files : i < j =>
        \A x \in lines[i], y \in lines[j] : y < x

\* What a dump still has to read is newer than all it has printed, however
\* the files are rotated, cleared and removed meanwhile: its output is in the
\* order of the events and has none twice.
DumpGoesForward ==
    \A r \in Readers : dump[r].phase = "read" =>
        \A x \in dump[r].printed :
            \A j \in 0..dump[r].next : \A y \in lines[j] : x < y

\* With one sink, what rotation drops is always the oldest: every event since
\* the oldest one on disk is there too or was cleared, the last one included,
\* between any two steps and after kills and renames that fail.
OnlyOldestLost ==
    /\ \A x \in OnDisk : \A y \in x..emitted : y \in OnDisk \cup cleared
    /\ emitted > 0 => emitted \in OnDisk \cup cleared

\* A dump during which nothing changes prints every event that is on disk
\* ("dump/query commands scan base + rotated chain", K23.1 of the roadmap).
DumpIsComplete ==
    \A r \in Readers :
        dump[r].phase = "done" /\ calm[r] => dump[r].printed = OnDisk

\* A setting that is no count of files leaves the default ("invalid values
\* fall back safely to defaults", K23.2): the loop of a rotation starts there.
InvalidFallsBack ==
    MaxFilesSetting \notin Nat => \A s \in Sinks : at[s] =< DefaultFiles

\* Every Emit comes to its end, rotation included.
EmitReturns == \A s \in Sinks : sink[s] # "idle" ~> sink[s] = "idle"

\* Without faults the files are a log that is bounded and drops its oldest
\* events, MaxBytes at a time, only when all files are full.
Retained == INSTANCE RetainedLog
    WITH kept <- OnDisk, Capacity <- (MaxFiles + 1) * MaxBytes, Batch <- MaxBytes
ImplementsRetainedLog == Retained!Spec
=============================================================================
